---- MODULE Spec2Model ----
(***************************************************************************)
(* NewsCollector: deduplicated persistence (utils/storage.py), the verdict *)
(* engine (utils/ai.py) and the verdict pass (collector.py).               *)
(*                                                                         *)
(* Text is modelled as a sequence of one-character strings, so that        *)
(* strip(), lower(), re.sub() and URL parsing are computed character by    *)
(* character.  Python's None is the one-element sequence None below, whose *)
(* element is no character of any input.                                   *)
(***************************************************************************)
EXTENDS Integers, Sequences, FiniteSets, TLC

VARIABLES
  idOrig,   \* identity check: the item as first seen
  idCur     \* identity check: the same item after edits that must not matter

identVars == <<idOrig, idCur>>

VARIABLES
  rows,     \* table collected_items: its rows, uncommitted ones carry their writer
  nextId,   \* the BIGSERIAL sequence of collected_items.id
  pool,     \* the save_item calls (item, platform, date) this run may make
  sv,       \* per caller: where its save_item call stands
  hist      \* the completed save_item calls, in order of completion

storeVars == <<rows, nextId, pool, sv, hist>>

VARIABLES
  cfg,             \* config["ai"]: configured, ai_max_verdict_items, ai_json_number_retry
  feed,            \* the item dicts a verdict pass of this run is given
  vp,              \* the verdict pass in progress: scope, chunk, attempt, prompt,
                   \* and the requests posted and answers received for the scope
  collaborator,    \* the AI collaborator: the responses it may give in this run
  daily_verdicts,  \* table daily_verdicts
  nextVid,         \* the BIGSERIAL sequence of daily_verdicts.id
  vcall,           \* the last verdict response handled and what became of it
  vdone,           \* the last scope a verdict pass finished
  vpassed,         \* the verdict passes completed, and the last of them
  fin,             \* the analyze_financial_report call in progress
  fcall            \* the last financial response handled and what became of it

aiVars ==
  <<cfg, feed, vp, collaborator, daily_verdicts, nextVid, vcall, vdone, vpassed, fin, fcall>>

VARIABLES
  adapter,  \* what the platform's collector does when collect_platform calls it
  cp        \* the collect_platform call: where it stands, its counters and caches,
            \* the result it holds and what it did for each item so far

batchVars == <<adapter, cp>>

VARIABLES
  financial_reports,  \* table financial_reports
  ev,                 \* the evaluate_financial_reports call in progress
  flog                \* the writes to financial_reports so far, in order

finStoreVars == <<financial_reports, ev, flog>>

VARIABLES
  connPool,     \* the _SimpleConnectionPool object: its deque _pool and its counter _size
  held,         \* per thread: the connection its _Connection context holds, if any
  connections,  \* the connections psycopg.connect opened and nobody closed yet
  nextConn      \* how many connections psycopg.connect has opened so far

connVars == <<connPool, held, connections, nextConn>>

VARIABLES
  other     \* collect_all's task that is not running now: its place in
            \* target_platforms, its collector and its collect_platform call

runVars == <<other>>

VARIABLES
  txstatus,  \* per connection: the transaction status of its session
  last       \* the storage operation that ran last and how it ended

txVars == <<txstatus, last>>

vars == <<identVars, storeVars, aiVars, batchVars, finStoreVars, connVars, runVars, txVars>>

None == <<"None">>

IsNone(x) == x = None

(***************************************************************************)
(* Python str helpers                                                      *)
(***************************************************************************)
IsSpace(c) == c \in {" ", "\t", "\n"}

LowerChar(c) ==
  CASE c = "A" -> "a"
    [] c = "B" -> "b"
    [] c = "C" -> "c"
    [] c = "H" -> "h"
    [] c = "X" -> "x"
    [] OTHER -> c

lower(s) == [i \in 1..Len(s) |-> LowerChar(s[i])]

RECURSIVE lstrip(_)
lstrip(s) == IF s # <<>> /\ IsSpace(Head(s)) THEN lstrip(Tail(s)) ELSE s

RECURSIVE rstrip(_)
rstrip(s) ==
  IF s # <<>> /\ IsSpace(s[Len(s)]) THEN rstrip(SubSeq(s, 1, Len(s) - 1)) ELSE s

strip(s) == rstrip(lstrip(s))

\* re.sub(r"\s+", " ", s): every maximal run of whitespace becomes one space
RECURSIVE re_sub_ws(_)
re_sub_ws(s) ==
  IF s = <<>> THEN <<>>
  ELSE IF IsSpace(Head(s)) THEN <<" ">> \o re_sub_ws(lstrip(s))
  ELSE <<Head(s)>> \o re_sub_ws(Tail(s))

\* s.find over a set of characters, from index i (1-based); 0 when absent
RECURSIVE find(_, _, _)
find(s, C, i) ==
  IF i > Len(s) THEN 0 ELSE IF s[i] \in C THEN i ELSE find(s, C, i + 1)

Contains(s, c) == find(s, {c}, 1) # 0

\* "x or ''" of an optional string
OrEmpty(x) == IF IsNone(x) THEN <<>> ELSE x

(***************************************************************************)
(* urllib.parse as used by _normalize_url                                  *)
(***************************************************************************)
AlphaChars == {"a", "b", "c", "h", "p", "t", "x", "A", "B", "C", "H", "X"}

SchemeChars == AlphaChars \cup {"1", "2", "+", "-", "."}

uses_netloc == {<<>>, <<"h", "t", "t", "p">>, <<"f", "t", "p">>, <<"w", "s">>}

\* urlparse(url), one step per operator: each passes what it has split off
\* to the next.  The inputs carry no ';', so params is always empty.
ParseResult(scheme, netloc, path, query, fragment) ==
  [raised |-> Contains(netloc, "[") # Contains(netloc, "]"),
   scheme |-> scheme, netloc |-> netloc, path |-> path,
   params |-> <<>>, query |-> query, fragment |-> fragment]

\* if '?' in url: url, query = url.split('?', 1)
QueryAt(scheme, netloc, url, fragment, q) ==
  IF q = 0 THEN ParseResult(scheme, netloc, url, <<>>, fragment)
  ELSE ParseResult(scheme, netloc, SubSeq(url, 1, q - 1),
                   SubSeq(url, q + 1, Len(url)), fragment)

\* if '#' in url: url, fragment = url.split('#', 1)
FragmentAt(scheme, netloc, url, h) ==
  IF h = 0 THEN QueryAt(scheme, netloc, url, <<>>, find(url, {"?"}, 1))
  ELSE QueryAt(scheme, netloc, SubSeq(url, 1, h - 1), SubSeq(url, h + 1, Len(url)),
               find(SubSeq(url, 1, h - 1), {"?"}, 1))

\* _splitnetloc(url, 2): the netloc ends at the first of '/', '?', '#'
NetlocAt(scheme, url, d) ==
  IF d = 0
  THEN FragmentAt(scheme, SubSeq(url, 3, Len(url)), <<>>, 0)
  ELSE FragmentAt(scheme, SubSeq(url, 3, d - 1), SubSeq(url, d, Len(url)),
                  find(SubSeq(url, d, Len(url)), {"#"}, 1))

\* if url[:2] == '//'
SplitNetloc(scheme, url) ==
  IF Len(url) >= 2 /\ url[1] = "/" /\ url[2] = "/"
  THEN NetlocAt(scheme, url, find(url, {"/", "?", "#"}, 3))
  ELSE FragmentAt(scheme, <<>>, url, find(url, {"#"}, 1))

\* i = url.find(':'); a scheme is a letter followed by scheme characters
SchemeAt(url, i) ==
  IF /\ i > 1
     /\ url[1] \in AlphaChars
     /\ \A k \in 1..(i - 1) : url[k] \in SchemeChars
  THEN SplitNetloc(lower(SubSeq(url, 1, i - 1)), SubSeq(url, i + 1, Len(url)))
  ELSE SplitNetloc(<<>>, url)

RemoveUnsafe(url) == SelectSeq(url, LAMBDA c : c \notin {"\t", "\n", "\r"})

SplitScheme(url) == SchemeAt(url, find(url, {":"}, 1))

urlparse(url) == SplitScheme(RemoveUnsafe(lstrip(url)))

\* urlunsplit: scheme, query and fragment around //netloc/path
Delimited(scheme, url, query, fragment) ==
  (IF scheme # <<>> THEN scheme \o <<":">> ELSE <<>>)
  \o url
  \o (IF query # <<>> THEN <<"?">> \o query ELSE <<>>)
  \o (IF fragment # <<>> THEN <<"#">> \o fragment ELSE <<>>)

urlunsplit(scheme, netloc, url, query, fragment) ==
  IF \/ netloc # <<>>
     \/ /\ scheme # <<>>
        /\ scheme \in uses_netloc
        /\ SubSeq(url, 1, 2) # <<"/", "/">>
  THEN Delimited(scheme,
                 <<"/", "/">> \o netloc \o
                   (IF url # <<>> /\ url[1] # "/" THEN <<"/">> ELSE <<>>) \o url,
                 query, fragment)
  ELSE Delimited(scheme, url, query, fragment)

urlunparse(scheme, netloc, path, params, query, fragment) ==
  urlunsplit(scheme, netloc,
             IF params # <<>> THEN path \o <<";">> \o params ELSE path,
             query, fragment)

(***************************************************************************)
(* Dedup helpers                                                           *)
(***************************************************************************)
\* return normalized if normalized.strip() else None
NoneIfBlank(normalized) == IF strip(normalized) # <<>> THEN normalized ELSE None

\* the body of _normalize_url's try; a ValueError of urlparse gives None
NormalizeParsed(parsed) ==
  IF parsed.raised THEN None
  ELSE NoneIfBlank(urlunparse(parsed.scheme, lower(parsed.netloc), parsed.path,
                              parsed.params, parsed.query, <<>>))

_normalize_url(url) ==
  IF IsNone(url) \/ url = <<>> \/ strip(url) = <<>> THEN None
  ELSE NormalizeParsed(urlparse(strip(url)))

Truthy(x) == ~IsNone(x) /\ x # <<>>

\* _item_identity once the url is normalized
ItemIdentityOf(item, url) ==
  IF Truthy(url)
  THEN <<"url", url>>
  ELSE <<"title", strip(OrEmpty(item.platform)), strip(OrEmpty(item.source)),
         re_sub_ws(lower(strip(OrEmpty(item.title))))>>

_item_identity(item) == ItemIdentityOf(item, _normalize_url(item.url))

\* _identity_for_row once the url is normalized
IdentityForRowOf(item, url) ==
  IF Truthy(url)
  THEN [identity_type |-> "url", identity_value |-> url, normalized_url |-> url]
  ELSE [identity_type |-> "title",
        identity_value |-> lower(strip(OrEmpty(item.source))) \o <<"|">>
                           \o re_sub_ws(lower(strip(OrEmpty(item.title)))),
        normalized_url |-> None]

_identity_for_row(item) == IdentityForRowOf(item, _normalize_url(item.url))

(***************************************************************************)
(* Identity stability: an item and its re-spellings                        *)
(***************************************************************************)
MaxStrLen == 4

HTTP == <<"h", "t", "t", "p">>

UrlBase == HTTP \o <<":", "/", "/">>

UrlInputs ==
  { None, <<>>, <<" ">>,
    UrlBase \o <<"x", "/", "a">>,
    UrlBase \o <<"X", "/", "a", "#", "b">>,
    UrlBase \o <<"x", "/", "a", "?", "c">>,
    UrlBase \o <<"x", "/", "b">>,
    <<" ">> \o UrlBase \o <<"x", "/", "a">>,
    <<"#", "b">>,
    UrlBase \o <<"[", "x">> }

SourceInputs == { <<>>, <<"a">>, <<"A", " ", "b">>, <<"a", "|", "b">> }

TitleInputs == { <<"c">>, <<"A", " ", "b">>, <<" ", "b">>, <<"b", "|", "c">> }

PlatformInputs == { <<"p", "1">>, <<"p", "2">> }

ToggleChar(c) ==
  CASE c = "a" -> "A" [] c = "b" -> "B" [] c = "c" -> "C" [] c = "x" -> "X"
    [] c = "h" -> "H"
    [] OTHER -> LowerChar(c)

SetAt(s, i, c) == [s EXCEPT ![i] = c]

InsertAt(s, i, c) == SubSeq(s, 1, i - 1) \o <<c>> \o SubSeq(s, i, Len(s))

DeleteAt(s, i) == SubSeq(s, 1, i - 1) \o SubSeq(s, i + 1, Len(s))

\* the re-spellings of s that differ only in letter case at one place
CaseEdits(s) == { SetAt(s, i, ToggleChar(s[i])) : i \in 1..Len(s) } \ {s}

\* the re-spellings of s that differ only in the length or the characters of
\* one existing whitespace run
WsEdits(s) ==
  { t \in
      UNION { ({ SetAt(s, i, w) : w \in {" ", "\t"} }
               \cup { InsertAt(s, i, w) : w \in {" ", "\t"} }
               \cup (IF i < Len(s) /\ IsSpace(s[i + 1]) THEN { DeleteAt(s, i) } ELSE {}))
              : i \in { j \in 1..Len(s) : IsSpace(s[j]) } } :
      t # s /\ Len(t) <= MaxStrLen }

HasUrl(item) == ~IsNone(item.url) /\ item.url # <<>>

\* the url with its fragment replaced by f (dropped when f is empty)
WithFragmentAt(url, f, h) ==
  (IF h = 0 THEN url ELSE SubSeq(url, 1, h - 1))
  \o (IF f = <<>> THEN <<>> ELSE <<"#">> \o f)

WithFragment(url, f) == WithFragmentAt(url, f, find(url, {"#"}, 1))

\* the places of the raw url that urlparse reads as the host
HostPlacesOf(url, p) ==
  IF p.raised \/ p.netloc = <<>> \/ url # strip(url) THEN {}
  ELSE IF p.scheme # <<>>
       THEN (Len(p.scheme) + 4)..(Len(p.scheme) + 3 + Len(p.netloc))
       ELSE 3..(2 + Len(p.netloc))

HostPlaces(url) == HostPlacesOf(url, urlparse(url))

IdleStore ==
  /\ rows = {}
  /\ nextId = 1
  /\ pool = {}
  /\ sv = <<>>
  /\ hist = <<>>

IdleAI ==
  /\ cfg = [configured |-> FALSE]
  /\ feed = [items |-> <<>>]
  /\ vp = [pc |-> "idle"]
  /\ collaborator = {}
  /\ daily_verdicts = {}
  /\ nextVid = 1
  /\ vcall = [outcome |-> "nothing"]
  /\ vdone = [any |-> FALSE]
  /\ vpassed = [n |-> 0, ran |-> [collect_all |-> 0, generate_verdicts_from_items |-> 0]]
  /\ fin = [pc |-> "idle"]
  /\ fcall = [outcome |-> "nothing"]

IdleBatch ==
  /\ adapter = [kind |-> "none"]
  /\ cp = [pc |-> "idle"]

IdleFinStore ==
  /\ financial_reports = {}
  /\ ev = [pc |-> "idle"]
  /\ flog = <<>>

IdleConn ==
  /\ connPool = [_pool |-> <<>>, _size |-> 0]
  /\ held = <<>>
  /\ connections = {}
  /\ nextConn = 0

IdleRun == other = [task |-> 0]

IdleTx == txstatus = <<>> /\ last = <<>>

InitIdentity ==
  /\ IdleStore
  /\ IdleAI
  /\ IdleBatch
  /\ IdleFinStore
  /\ IdleConn
  /\ IdleRun
  /\ IdleTx
  /\ idOrig \in [url : UrlInputs, source : SourceInputs, title : TitleInputs,
                  platform : PlatformInputs]
  /\ idCur = idOrig

EditFragment ==
  /\ HasUrl(idCur) /\ idCur.url = strip(idCur.url)
  /\ \E f \in {<<>>, <<"b">>, <<"c">>} :
       /\ WithFragment(idCur.url, f) # <<>>
       /\ idCur' = [idCur EXCEPT !.url = WithFragment(idCur.url, f)]
  /\ UNCHANGED <<idOrig, txVars, runVars, connVars, storeVars, aiVars, batchVars, finStoreVars>>

EditHostCase ==
  /\ HasUrl(idCur)
  /\ \E i \in HostPlaces(idCur.url) :
       idCur' = [idCur EXCEPT !.url = SetAt(idCur.url, i, ToggleChar(idCur.url[i]))]
  /\ UNCHANGED <<idOrig, txVars, runVars, connVars, storeVars, aiVars, batchVars, finStoreVars>>

EditTitleCase ==
  /\ ~HasUrl(idCur)
  /\ \E t \in CaseEdits(idCur.title) : idCur' = [idCur EXCEPT !.title = t]
  /\ UNCHANGED <<idOrig, txVars, runVars, connVars, storeVars, aiVars, batchVars, finStoreVars>>

EditTitleSpace ==
  /\ ~HasUrl(idCur)
  /\ \E t \in WsEdits(idCur.title) : idCur' = [idCur EXCEPT !.title = t]
  /\ UNCHANGED <<idOrig, txVars, runVars, connVars, storeVars, aiVars, batchVars, finStoreVars>>

EditSourceCase ==
  /\ ~HasUrl(idCur)
  /\ \E t \in CaseEdits(idCur.source) : idCur' = [idCur EXCEPT !.source = t]
  /\ UNCHANGED <<idOrig, txVars, runVars, connVars, storeVars, aiVars, batchVars, finStoreVars>>

EditSourceSpace ==
  /\ ~HasUrl(idCur)
  /\ \E t \in WsEdits(idCur.source) : idCur' = [idCur EXCEPT !.source = t]
  /\ UNCHANGED <<idOrig, txVars, runVars, connVars, storeVars, aiVars, batchVars, finStoreVars>>

NextIdentity ==
  \/ EditFragment
  \/ EditHostCase
  \/ EditTitleCase
  \/ EditTitleSpace
  \/ EditSourceCase
  \/ EditSourceSpace

SpecIdentity == InitIdentity /\ [][NextIdentity]_vars

\* C4: the identity used for deduplication is the same for an item and for
\* every re-spelling of it by URL fragment, URL host case, and (without a URL)
\* letter case and whitespace runs of title and source; for both
\* _item_identity and _identity_for_row.
C4_IdentityStable ==
  /\ _item_identity(idCur) = _item_identity(idOrig)
  /\ _identity_for_row(idCur) = _identity_for_row(idOrig)

\* the part of C4 about the URL and the title alone
IdentityStableUrlTitle ==
  (idCur.source = idOrig.source) =>
    /\ _item_identity(idCur) = _item_identity(idOrig)
    /\ _identity_for_row(idCur) = _identity_for_row(idOrig)

(***************************************************************************)
(* save_item under concurrent callers                                      *)
(***************************************************************************)
NumCallers == 2

MaxSaves == 3

Callers == 1..NumCallers

\* the empty dict, which save_item refuses
EmptyItem == [empty |-> TRUE]

Item(url, source, title) ==
  [url |-> url, source |-> source, title |-> title, platform |-> <<"p", "1">>]

StoreItems ==
  { Item(None, <<"a">>, <<"b", "|", "c">>),
    Item(None, <<" ", "A", "|", "b">>, <<"C", " ">>),
    Item(UrlBase \o <<"x", "/", "a">>, <<"a">>, <<"c">>),
    Item(UrlBase \o <<"X", "/", "a", "#", "b">>, <<"a">>, <<"d">>),
    EmptyItem }

\* (platform, date) pairs a call may name
Partitions ==
  { <<(<<"p", "1">>), "d1">>, <<(<<"p", "2">>), "d1">>, <<(<<"p", "1">>), "d2">> }

Requests ==
  { [item |-> it, platform |-> part[1], date |-> part[2]] :
      it \in StoreItems, part \in Partitions }

\* UNIQUE (date, platform, identity_type, identity_value)
UniqueKey(r) == <<r.date, r.platform, r.identity_type, r.identity_value>>

\* the row save_item sends to INSERT
NewRow(item, platform, region, date) ==
  [date |-> date, platform |-> platform, region |-> region, item |-> item]
  @@ _identity_for_row(item)

\* InFlightConflict without the unique index: the insert never waits for
\* another writer
InFlightConflictNone(c, row) == FALSE

\* the unique index makes an insert wait while another transaction holds an
\* uncommitted row of the same key
InFlightConflict(c, row) ==
  \E r \in rows : r.txn \notin {0, c} /\ UniqueKey(r) = UniqueKey(row)

\* Conflicts without the ON CONFLICT target: no uniqueness constraint is consulted
ConflictsNever(c, row) == FALSE

\* ON CONFLICT (date, platform, identity_type, identity_value)
Conflicts(c, row) ==
  \E r \in rows : r.txn \in {0, c} /\ UniqueKey(r) = UniqueKey(row)

\* the id of the row an INSERT conflicts with
ConflictingId(c, row) ==
  (CHOOSE r \in rows : r.txn \in {0, c} /\ UniqueKey(r) = UniqueKey(row)).id

InitStoreVars ==
  /\ rows = {}
  /\ nextId = 1
  /\ pool \in { S \in SUBSET Requests : Cardinality(S) \in 1..2 }
  /\ sv = [c \in Callers |-> [pc |-> "idle"]]
  /\ hist = <<>>

InitStore ==
  /\ InitStoreVars
  /\ IdleAI
  /\ IdleBatch
  /\ IdleFinStore
  /\ IdleConn
  /\ IdleRun
  /\ IdleTx
  /\ idOrig = None
  /\ idCur = None

Started == Len(hist) + Cardinality({c \in Callers : sv[c].pc # "idle"})

\* save_item up to the INSERT: the empty-dict return, the identity
SaveItemBegin(c) ==
  /\ sv[c].pc = "idle"
  /\ Started < MaxSaves
  /\ \E req \in pool :
       IF req.item = EmptyItem
       THEN /\ hist' = Append(hist, [caller |-> c, item |-> req.item,
                                     platform |-> req.platform, date |-> req.date,
                                     inserted |-> FALSE, raced |-> FALSE, row_id |-> 0,
                                     identity_type |-> "", identity_value |-> <<>>])
            /\ UNCHANGED sv
       ELSE \E row \in {NewRow(req.item, req.platform, None, req.date)} :
            \E racing \in {{ d \in Callers \ {c} :
                               sv[d].pc # "idle" /\ UniqueKey(sv[d].row) = UniqueKey(row) }} :
              /\ sv' = [d \in Callers |->
                          IF d = c THEN [pc |-> "insert", row |-> row,
                                         raced |-> racing # {}]
                          ELSE IF d \in racing THEN [sv[d] EXCEPT !.raced = TRUE]
                          ELSE sv[d]]
              /\ UNCHANGED hist
  /\ UNCHANGED <<rows, nextId, pool, identVars, txVars, runVars, connVars, aiVars, batchVars, finStoreVars>>

\* SaveItemInsert with DO UPDATE in place of DO NOTHING: a refused insert
\* overwrites the columns of the stored row
SaveItemInsertUpdating(c) ==
  /\ sv[c].pc = "insert"
  /\ ~InFlightConflict(c, sv[c].row)
  /\ IF Conflicts(c, sv[c].row)
     THEN /\ sv' = [sv EXCEPT ![c] = [pc |-> "commit", row |-> sv[c].row,
                                      raced |-> sv[c].raced, inserted |-> FALSE,
                                      row_id |-> ConflictingId(c, sv[c].row)]]
          /\ rows' = { IF r.id = ConflictingId(c, sv[c].row)
                       THEN [r EXCEPT !.item = sv[c].row.item] ELSE r : r \in rows }
     ELSE /\ rows' = rows \cup {[id |-> nextId, txn |-> c] @@ sv[c].row}
          /\ sv' = [sv EXCEPT ![c] = [pc |-> "commit", row |-> sv[c].row,
                                      raced |-> sv[c].raced, inserted |-> TRUE,
                                      row_id |-> nextId]]
  /\ nextId' = nextId + 1
  /\ UNCHANGED <<pool, hist, identVars, txVars, runVars, connVars, aiVars, batchVars, finStoreVars>>

\* INSERT ... ON CONFLICT DO NOTHING RETURNING 1; inserted = fetchone() is not None.
\* The id default is drawn from the sequence before the conflict is found, so
\* a refused insert uses up an id too.
SaveItemInsert(c) ==
  /\ sv[c].pc = "insert"
  /\ ~InFlightConflict(c, sv[c].row)
  /\ IF Conflicts(c, sv[c].row)
     THEN /\ sv' = [sv EXCEPT ![c] = [pc |-> "commit", row |-> sv[c].row,
                                      raced |-> sv[c].raced, inserted |-> FALSE,
                                      row_id |-> ConflictingId(c, sv[c].row)]]
          /\ UNCHANGED rows
     ELSE /\ rows' = rows \cup {[id |-> nextId, txn |-> c] @@ sv[c].row}
          /\ sv' = [sv EXCEPT ![c] = [pc |-> "commit", row |-> sv[c].row,
                                      raced |-> sv[c].raced, inserted |-> TRUE,
                                      row_id |-> nextId]]
  /\ nextId' = nextId + 1
  /\ UNCHANGED <<pool, hist, identVars, txVars, runVars, connVars, aiVars, batchVars, finStoreVars>>

\* conn.commit(), the connection goes back, return inserted
SaveItemCommit(c) ==
  /\ sv[c].pc = "commit"
  /\ rows' = { IF r.txn = c THEN [r EXCEPT !.txn = 0] ELSE r : r \in rows }
  /\ hist' = Append(hist, [caller |-> c, item |-> sv[c].row.item,
                           platform |-> sv[c].row.platform, date |-> sv[c].row.date,
                           inserted |-> sv[c].inserted, raced |-> sv[c].raced,
                           row_id |-> sv[c].row_id,
                           identity_type |-> sv[c].row.identity_type,
                           identity_value |-> sv[c].row.identity_value])
  /\ sv' = [sv EXCEPT ![c] = [pc |-> "idle"]]
  /\ UNCHANGED <<nextId, pool, identVars, txVars, runVars, connVars, aiVars, batchVars, finStoreVars>>

NextStore ==
  \E c \in Callers :
    \/ SaveItemBegin(c)
    \/ SaveItemInsert(c)
    \/ SaveItemCommit(c)

SpecStore == InitStore /\ [][NextStore]_vars

\* the completed calls that carried an item
Saves == { i \in DOMAIN hist : hist[i].item # EmptyItem }

RowKey(r) == <<r.date, r.platform, r.identity_type, r.identity_value>>

\* the stored rows under a call's date and platform that carry the identity
\* the call computed for its item
RowsOf(e) == { r \in rows : RowKey(r) = RowKey(e) }

SameCall(e, f) == e.item = f.item /\ e.platform = f.platform /\ e.date = f.date

SameKey(e, f) == RowKey(e) = RowKey(f)

\* j is the call its caller made right after call i
NextCallOf(i, j) ==
  /\ i < j
  /\ hist[i].caller = hist[j].caller
  /\ \A k \in (i + 1)..(j - 1) : hist[k].caller # hist[i].caller

\* C1: save_item(I, P, date=D) called twice in a row leaves exactly one row for
\* I's identity under (D, P); the second call returns False, and the first
\* returns True when no earlier call stored that identity.
C1_SaveTwice ==
  \A i \in Saves, j \in Saves :
    (NextCallOf(i, j) /\ SameCall(hist[i], hist[j])) =>
      /\ hist[j].inserted = FALSE
      /\ Cardinality(RowsOf(hist[j])) = 1
      /\ (\A m \in Saves : m < i => ~SameKey(hist[m], hist[i])) => hist[i].inserted = TRUE

C1_Witness ==
  \E i \in Saves, j \in Saves :
    /\ NextCallOf(i, j) /\ SameCall(hist[i], hist[j])
    /\ hist[i].inserted = TRUE /\ hist[j].inserted = FALSE

ResolverKeyOf(item, url) ==
  IF Truthy(url) THEN <<"url", url>>
  ELSE <<"title", item.platform, lower(strip(item.source)),
         re_sub_ws(lower(strip(item.title)))>>

ResolverKey(item) == ResolverKeyOf(item, _normalize_url(item.url))

\* C3: two items saved for the same date and platform end in one stored row
\* if and only if their identity keys are equal.
C3_CollapsedIffSameIdentity ==
  \A i \in Saves, j \in Saves :
    (hist[i].date = hist[j].date /\ hist[i].platform = hist[j].platform) =>
      ((hist[i].row_id = hist[j].row_id)
         <=> (ResolverKey(hist[i].item) = ResolverKey(hist[j].item)))

\* the half of C3 that the stored key does give: equal identity keys end in
\* one stored row
SameIdentityCollapses ==
  \A i \in Saves, j \in Saves :
    (/\ hist[i].date = hist[j].date /\ hist[i].platform = hist[j].platform
     /\ ResolverKey(hist[i].item) = ResolverKey(hist[j].item))
      => hist[i].row_id = hist[j].row_id

\* the completed calls that inserted a row
Inserts == { i \in Saves : hist[i].inserted }

\* the row a completed call sent to INSERT
SentRow(e) == NewRow(e.item, e.platform, None, e.date)

\* C31: a save_item call that conflicts with a stored identity leaves the
\* store as it was and returns False: every committed row carries, column by
\* column, what the call that inserted it sent, whatever calls of the same
\* identity completed later; the committed rows are as many as the calls that
\* returned True; and a call that completes after a call of the same key
\* returns False
C31_ConflictingSaveIsNoOp ==
  /\ \A r \in rows :
       r.txn = 0 => \E i \in Inserts :
                      r = [id |-> hist[i].row_id, txn |-> 0] @@ SentRow(hist[i])
  /\ Cardinality({ r \in rows : r.txn = 0 }) = Cardinality(Inserts)
  /\ \A i \in Saves, j \in Saves :
       (i < j /\ SameKey(hist[i], hist[j])) => ~hist[j].inserted

\* a url item was stored, then an item with another title and the same
\* identity was saved under the same date and platform: it was refused and the
\* stored row still carries the first title
C31_Witness ==
  \E i \in Inserts, j \in Saves :
    /\ i < j /\ SameKey(hist[i], hist[j])
    /\ hist[j].item.title # hist[i].item.title
    /\ ~hist[j].inserted
    /\ \E r \in rows : r.id = hist[j].row_id /\ r.txn = 0 /\ r.item = hist[i].item

(***************************************************************************)
(* The AI collaborator's responses.  A JSON value is a record tagged by    *)
(* its Python type; a response body is a sequence of lexemes, one lexeme   *)
(* for whitespace, for a code fence, for stray text and for a JSON         *)
(* document.                                                               *)
(***************************************************************************)
JNull == [k |-> "null"]

JInt(n) == [k |-> "int", n |-> n]

\* a finite float, given by its integer part
JFloat(whole) == [k |-> "float", whole |-> whole]

\* the float json.loads makes of 1e999 or Infinity
JInf == [k |-> "inf"]

JStr(s) == [k |-> "str", s |-> s]

JList == [k |-> "list"]

JObj(f) == [k |-> "obj", f |-> f]

\* json.JSONDecodeError
JSONDecodeError == [k |-> "error"]

\* the three-backtick code fence
Fence == "~~~"

VerdictDoc(summary, gp, ge, dp, de) ==
  JObj("summary" :> summary @@ "global_political_score" :> gp
       @@ "global_economic_score" :> ge @@ "domestic_political_score" :> dp
       @@ "domestic_economic_score" :> de)

\* the JSON documents a response may carry, by the lexeme that stands for them
Documents ==
  "valid" :> VerdictDoc(JStr(<<"s">>), JInt(100), JInt(0), JInt(7), JInt(85))
  @@ "range" :> JObj("summary" :> JStr(<<" ", "s">>)
                     @@ "global_political_score" :> JInt(150)
                     @@ "global_economic_score" :> JInt(0 - 10)
                     @@ "domestic_political_score" :> JStr(<<"7", " ">>)
                     @@ "domestic_economic_score" :> JFloat(85)
                     @@ "health_score" :> JInt(150)
                     @@ "potential_score" :> JStr(<<"4", "0">>))
  @@ "missing" :> JObj("summary" :> JStr(<<"s">>) @@ "global_political_score" :> JInt(1)
                       @@ "global_economic_score" :> JNull)
  @@ "badnum" :> VerdictDoc(JStr(<<"s">>), JStr(<<"a", "b">>), JInt(1), JInt(1), JInt(1))
  @@ "blank" :> VerdictDoc(JStr(<<" ">>), JInt(1), JInt(1), JInt(1), JInt(1))
  @@ "inf" :> VerdictDoc(JStr(<<"s">>), JInf, JInt(1), JInt(1), JInt(1))
  @@ "[]" :> JList
  @@ "second" :> VerdictDoc(JStr(<<"v">>), JInt(1), JInt(2), JInt(3), JInt(4))

Body(content) == [choices |-> <<[message |-> [content |-> content]]>>]

\* what client.post(...) may give: an HTTP error, a timeout, or a chat
\* completion
Responses ==
  { [transport |-> "http_error", data |-> [choices |-> <<>>]],
    [transport |-> "timeout", data |-> [choices |-> <<>>]],
    [transport |-> "ok", data |-> [choices |-> <<>>]],
    [transport |-> "ok", data |-> Body(<<"oops">>)],
    [transport |-> "ok", data |-> Body(<<"[]">>)],
    [transport |-> "ok", data |-> Body(<<"missing">>)],
    [transport |-> "ok", data |-> Body(<<"badnum">>)],
    [transport |-> "ok", data |-> Body(<<"blank">>)],
    [transport |-> "ok", data |-> Body(<<"inf">>)],
    [transport |-> "ok", data |-> Body(<<" ", "valid", "\n">>)],
    [transport |-> "ok", data |-> Body(<<Fence, "json", "\n", "range", "\n", Fence>>)] }

\* a collaborator whose valid answers differ from one another
ChunkResponses ==
  { [transport |-> "timeout", data |-> [choices |-> <<>>]],
    [transport |-> "ok", data |-> Body(<<"oops">>)],
    [transport |-> "ok", data |-> Body(<<"valid">>)],
    [transport |-> "ok", data |-> Body(<<"second">>)] }

AllResponses == Responses \cup ChunkResponses

json_loads(text) ==
  IF Len(text) = 1 /\ text[1] \in DOMAIN Documents
  THEN Documents[text[1]]
  ELSE JSONDecodeError

ExtractUntil(payload, first_newline, end) ==
  IF end = 0 THEN payload ELSE strip(SubSeq(payload, first_newline + 1, end - 1))

ExtractAfterNewline(payload, first_newline) ==
  IF first_newline = 0 THEN payload
  ELSE ExtractUntil(payload, first_newline, find(payload, {Fence}, first_newline + 1))

ExtractFrom(payload, start) ==
  IF start = 0 THEN payload
  ELSE ExtractAfterNewline(payload, find(payload, {"\n"}, start))

_extract_json_text(content) ==
  ExtractFrom(strip(OrEmpty(content)), find(strip(OrEmpty(content)), {Fence}, 1))

_first_choice_content(data) ==
  IF data.choices = <<>> THEN <<>>
  ELSE strip(OrEmpty(data.choices[1].message.content))

(***************************************************************************)
(* int(), str() and _clamp_score                                           *)
(***************************************************************************)
DigitChars == {"0", "1", "2", "3", "4", "5", "6", "7", "8", "9"}

DigitVal(c) ==
  CASE c = "0" -> 0 [] c = "1" -> 1 [] c = "2" -> 2 [] c = "3" -> 3 [] c = "4" -> 4
    [] c = "5" -> 5 [] c = "6" -> 6 [] c = "7" -> 7 [] c = "8" -> 8 [] c = "9" -> 9

RECURSIVE DigitsValue(_, _)
DigitsValue(s, acc) ==
  IF s = <<>> THEN acc ELSE DigitsValue(Tail(s), 10 * acc + DigitVal(Head(s)))

IsDigits(s) == s # <<>> /\ \A i \in 1..Len(s) : s[i] \in DigitChars

\* an optional int: None, or an int
NoneInt == [none |-> TRUE]

Some(n) == [none |-> FALSE, v |-> n]

Returned(value) == [exc |-> "", value |-> value]

Raised(exc) == [exc |-> exc, value |-> NoneInt]

IntOfStr(s) ==
  IF IsDigits(s) THEN Returned(Some(DigitsValue(s, 0)))
  ELSE IF s # <<>> /\ Head(s) = "-" /\ IsDigits(Tail(s))
       THEN Returned(Some(0 - DigitsValue(Tail(s), 0)))
       ELSE Raised("ValueError")

int(value) ==
  CASE value.k = "int" -> Returned(Some(value.n))
    [] value.k = "float" -> Returned(Some(value.whole))
    [] value.k = "inf" -> Raised("OverflowError")
    [] value.k = "str" -> IntOfStr(strip(value.s))
    [] OTHER -> Raised("TypeError")

str(value) ==
  CASE value.k = "str" -> value.s
    [] value.k = "null" -> <<"N", "o", "n", "e">>
    [] value.k = "list" -> <<"[", "]">>
    [] OTHER -> <<value.k>>   \* any other value prints as some non-blank text

max(a, b) == IF a >= b THEN a ELSE b

min(a, b) == IF a <= b THEN a ELSE b

\* the conversion without the clamp
ClampOfUnbounded(converted) ==
  IF converted.exc \in {"TypeError", "ValueError"} THEN Returned(NoneInt)
  ELSE converted

ClampOf(converted) ==
  IF converted.exc \in {"TypeError", "ValueError"} THEN Returned(NoneInt)
  ELSE IF converted.exc # "" THEN converted
  ELSE Returned(Some(max(0, min(100, converted.value.v))))

\* a score outside 0..100 taken as invalid rather than clamped
_clamp_score_reject(value) ==
  IF int(value).exc \in {"TypeError", "ValueError"} THEN Returned(NoneInt)
  ELSE IF int(value).exc # "" THEN int(value)
  ELSE IF int(value).value.v \in 0..100 THEN int(value) ELSE Returned(NoneInt)

_clamp_score(value) == ClampOf(int(value))

(***************************************************************************)
(* _parse_verdict_response, and one pass of the loop of _call_verdict_api  *)
(***************************************************************************)
get(parsed, key) == IF key \in DOMAIN parsed.f THEN parsed.f[key] ELSE JNull

\* summary = parsed.get("summary"); str(summary).strip() or None
SummaryOf(summary) ==
  IF summary.k = "null" \/ strip(str(summary)) = <<>> THEN None ELSE strip(str(summary))

NoVerdict == [kind |-> "None"]

VerdictDict(summary, gp, ge, dp, de) ==
  [kind |-> "dict", summary |-> summary, global_political_score |-> gp,
   global_economic_score |-> ge, domestic_political_score |-> dp,
   domestic_economic_score |-> de]

Propagates(exc) == [kind |-> "raised", exc |-> exc]

ParsedVerdict(summary, gp, ge, dp, de) ==
  IF gp.exc # "" THEN Propagates(gp.exc)
  ELSE IF ge.exc # "" THEN Propagates(ge.exc)
  ELSE IF dp.exc # "" THEN Propagates(dp.exc)
  ELSE IF de.exc # "" THEN Propagates(de.exc)
  ELSE IF \/ IsNone(summary)
          \/ gp.value.none \/ ge.value.none \/ dp.value.none \/ de.value.none
       THEN NoVerdict
       ELSE VerdictDict(summary, gp.value.v, ge.value.v, dp.value.v, de.value.v)

ParseVerdictJson(parsed) ==
  IF parsed.k = "error" THEN NoVerdict
  ELSE IF parsed.k # "obj" THEN Propagates("AttributeError")
  ELSE ParsedVerdict(SummaryOf(get(parsed, "summary")),
                     _clamp_score(get(parsed, "global_political_score")),
                     _clamp_score(get(parsed, "global_economic_score")),
                     _clamp_score(get(parsed, "domestic_political_score")),
                     _clamp_score(get(parsed, "domestic_economic_score")))

_parse_verdict_response(content) ==
  IF content = <<>> THEN NoVerdict
  ELSE ParseVerdictJson(json_loads(_extract_json_text(content)))

\* a failed request taken as one more response that does not parse
VerdictAttemptRetrying(resp) ==
  IF resp.transport # "ok" THEN [kind |-> "parse_failed"]
  ELSE IF _parse_verdict_response(_first_choice_content(resp.data)).kind = "None"
       THEN [kind |-> "parse_failed"]
       ELSE _parse_verdict_response(_first_choice_content(resp.data))

\* one pass of the loop: the request fails and the call returns None at once,
\* the response parses to a result, parsing raises, or parsing fails
VerdictAttempt(resp) ==
  IF resp.transport # "ok" THEN [kind |-> "request_failed"]
  ELSE IF _parse_verdict_response(_first_choice_content(resp.data)).kind = "None"
       THEN [kind |-> "parse_failed"]
       ELSE _parse_verdict_response(_first_choice_content(resp.data))

\* what _call_verdict_api returns once it returns
ApiReturn(attempted) ==
  IF attempted.kind \in {"request_failed", "parse_failed"} THEN NoVerdict ELSE attempted

(***************************************************************************)
(* analyze_financial_report: one pass of its loop                          *)
(***************************************************************************)
FinancialFields(summary, health_score, potential_score) ==
  IF health_score.exc # "" THEN Propagates(health_score.exc)
  ELSE IF potential_score.exc # "" THEN Propagates(potential_score.exc)
  ELSE IF ~IsNone(summary) /\ ~health_score.value.none /\ ~potential_score.value.none
       THEN [kind |-> "tuple", summary |-> summary,
             health_score |-> health_score.value.v,
             potential_score |-> potential_score.value.v]
       ELSE [kind |-> "incomplete"]

FinancialJson(parsed) ==
  IF parsed.k = "error" THEN [kind |-> "parse_failed"]
  ELSE IF parsed.k # "obj" THEN Propagates("AttributeError")
  ELSE FinancialFields(SummaryOf(get(parsed, "summary")),
                       _clamp_score(get(parsed, "health_score")),
                       _clamp_score(get(parsed, "potential_score")))

FinancialAttempt(resp) ==
  IF resp.transport # "ok" THEN [kind |-> "request_failed"]
  ELSE IF _first_choice_content(resp.data) = <<>> THEN [kind |-> "missing_content"]
  ELSE FinancialJson(json_loads(_extract_json_text(_first_choice_content(resp.data))))

(***************************************************************************)
(* Scopes of a verdict pass                                                *)
(***************************************************************************)
\* str(item_dict.get(key) or "").strip()
ItemPlatform(item) == strip(OrEmpty(item.platform))

ItemRegion(item) == strip(OrEmpty(item.region))

\* the key without the region of a platform and region pair
_scope_key_flat(platform, region) ==
  IF Truthy(platform) THEN <<"platform:">> \o platform
  ELSE IF Truthy(region) THEN <<"region:">> \o region
  ELSE <<"all">>

_scope_key(platform, region) ==
  IF Truthy(platform) /\ Truthy(region)
  THEN <<"platform:">> \o platform \o <<"|region:">> \o region
  ELSE IF Truthy(platform) THEN <<"platform:">> \o platform
  ELSE IF Truthy(region) THEN <<"region:">> \o region
  ELSE <<"all">>

\* the keys of a dict filled by setdefault in this order
RECURSIVE KeysInOrder(_)
KeysInOrder(s) ==
  IF s = <<>> THEN <<>>
  ELSE IF \E i \in 1..(Len(s) - 1) : s[i] = s[Len(s)]
       THEN KeysInOrder(SubSeq(s, 1, Len(s) - 1))
       ELSE Append(KeysInOrder(SubSeq(s, 1, Len(s) - 1)), s[Len(s)])

Scope(platform, region, items) ==
  [key |-> _scope_key(platform, region), platform |-> platform, region |-> region,
   items |-> items]

\* scopes[key] = value: a key already there keeps its place and takes the value
DictSet(scopes, entry) ==
  IF \E i \in 1..Len(scopes) : scopes[i].key = entry.key
  THEN [i \in 1..Len(scopes) |-> IF scopes[i].key = entry.key THEN entry ELSE scopes[i]]
  ELSE Append(scopes, entry)

RECURSIVE DictFromSeq(_)
DictFromSeq(entries) ==
  IF entries = <<>> THEN <<>>
  ELSE DictSet(DictFromSeq(SubSeq(entries, 1, Len(entries) - 1)), entries[Len(entries)])

Platforms(items) ==
  KeysInOrder(SelectSeq([i \in 1..Len(items) |-> ItemPlatform(items[i])],
                        LAMBDA p : p # <<>>))

Regions(items) ==
  KeysInOrder(SelectSeq([i \in 1..Len(items) |-> ItemRegion(items[i])],
                        LAMBDA r : r # <<>>))

PlatformRegions(items) ==
  KeysInOrder(SelectSeq([i \in 1..Len(items) |->
                           <<ItemPlatform(items[i]), ItemRegion(items[i])>>],
                        LAMBDA pr : pr[1] # <<>> /\ pr[2] # <<>>))

ScopeEntries(items, platforms, regions, pairs) ==
  (IF items # <<>> THEN <<Scope(None, None, items)>> ELSE <<>>)
  \o [i \in 1..Len(platforms) |->
        Scope(platforms[i], None,
              SelectSeq(items, LAMBDA it : ItemPlatform(it) = platforms[i]))]
  \o [i \in 1..Len(regions) |->
        Scope(None, regions[i],
              SelectSeq(items, LAMBDA it : ItemRegion(it) = regions[i]))]
  \o [i \in 1..Len(pairs) |->
        Scope(pairs[i][1], pairs[i][2],
              SelectSeq(items, LAMBDA it : /\ ItemPlatform(it) = pairs[i][1]
                                           /\ ItemRegion(it) = pairs[i][2]))]

_build_scopes_from_items(items) ==
  DictFromSeq(ScopeEntries(items, Platforms(items), Regions(items),
                           PlatformRegions(items)))

\* the items of every result, failed or not
RECURSIVE EveryItem(_)
EveryItem(results) ==
  IF results = <<>> THEN <<>>
  ELSE Head(results).items \o EveryItem(Tail(results))

\* the items of the results that succeeded, in order
RECURSIVE SuccessfulItems(_)
SuccessfulItems(results) ==
  IF results = <<>> THEN <<>>
  ELSE (IF IsNone(Head(results).error) THEN Head(results).items ELSE <<>>)
       \o SuccessfulItems(Tail(results))

\* the four collections of the builder's loop before the first item
NoGroups ==
  [all_items |-> <<>>, by_platform |-> <<>>, by_region |-> <<>>,
   by_platform_region |-> <<>>]

\* by.setdefault(key, []).append(item_dict)
SetDefaultAppend(by, key, item_dict) ==
  IF \E i \in 1..Len(by) : by[i].key = key
  THEN [i \in 1..Len(by) |->
          IF by[i].key = key THEN [by[i] EXCEPT !.items = Append(@, item_dict)]
          ELSE by[i]]
  ELSE Append(by, [key |-> key, items |-> <<item_dict>>])

\* one turn of the inner loop, for an item with this platform and region
GroupedAs(groups, item_dict, platform, region) ==
  [all_items |-> Append(groups.all_items, item_dict),
   by_platform |-> IF platform # <<>>
                   THEN SetDefaultAppend(groups.by_platform, platform, item_dict)
                   ELSE groups.by_platform,
   by_region |-> IF region # <<>>
                 THEN SetDefaultAppend(groups.by_region, region, item_dict)
                 ELSE groups.by_region,
   by_platform_region |->
     IF platform # <<>> /\ region # <<>>
     THEN SetDefaultAppend(groups.by_platform_region, <<platform, region>>, item_dict)
     ELSE groups.by_platform_region]

\* "for item in result.items: ..."
RECURSIVE GroupItems(_, _)
GroupItems(groups, items) ==
  IF items = <<>> THEN groups
  ELSE GroupItems(GroupedAs(groups, Head(items), ItemPlatform(Head(items)),
                            ItemRegion(Head(items))),
                  Tail(items))

\* "scopes[...] = {...}" for "all", then every platform, region and pair
ScopesOfGroups(groups) ==
  DictFromSeq(
    (IF groups.all_items # <<>> THEN <<Scope(None, None, groups.all_items)>> ELSE <<>>)
    \o [i \in 1..Len(groups.by_platform) |->
          Scope(groups.by_platform[i].key, None, groups.by_platform[i].items)]
    \o [i \in 1..Len(groups.by_region) |->
          Scope(None, groups.by_region[i].key, groups.by_region[i].items)]
    \o [i \in 1..Len(groups.by_platform_region) |->
          Scope(groups.by_platform_region[i].key[1],
                groups.by_platform_region[i].key[2],
                groups.by_platform_region[i].items)])

\* "for result in results: if not result.success: continue; for item ..."
_build_daily_analysis_scopes(results) ==
  ScopesOfGroups(GroupItems(NoGroups, SuccessfulItems(results)))

(***************************************************************************)
(* Prompts and generate_daily_verdict                                      *)
(***************************************************************************)
_format_items_for_verdict(items, start_idx) ==
  [i \in 1..Len(items) |-> [idx |-> start_idx + i - 1, item |-> items[i]]]

_build_daily_verdict_prompt(items, max_items) ==
  [kind |-> "standard",
   content |-> _format_items_for_verdict(SubSeq(items, 1, min(max_items, Len(items))), 1)]

_build_daily_verdict_continuation_prompt(items, previous_verdict, chunk_number, total_chunks, items_processed) ==
  [kind |-> "continuation",
   previous_verdict |-> previous_verdict,
   chunk_number |-> chunk_number,
   total_chunks |-> total_chunks,
   items_processed |-> items_processed,
   content |-> _format_items_for_verdict(items, items_processed + 1)]

\* (total_items + max_items - 1) // max_items
TotalChunks(total_items, max_items) == (total_items + max_items - 1) \div max_items

\* a chunk that starts over at the first item: items[0:chunk_end]
ChunkItemsFromStart(items, chunk_num, max_items) ==
  SubSeq(items, 1, min(chunk_num * max_items + max_items, Len(items)))

\* items[chunk_start:chunk_end] of chunk chunk_num, counted from 0
ChunkItems(items, chunk_num, max_items) ==
  SubSeq(items, chunk_num * max_items + 1,
         min(chunk_num * max_items + max_items, Len(items)))

NoneTuple ==
  [summary |-> None, global_political_score |-> NoneInt,
   global_economic_score |-> NoneInt, domestic_political_score |-> NoneInt,
   domestic_economic_score |-> NoneInt]

TupleOf(verdict) ==
  IF verdict.kind = "None" THEN NoneTuple
  ELSE [summary |-> verdict.summary,
        global_political_score |-> Some(verdict.global_political_score),
        global_economic_score |-> Some(verdict.global_economic_score),
        domestic_political_score |-> Some(verdict.domestic_political_score),
        domestic_economic_score |-> Some(verdict.domestic_economic_score)]

\* generate_daily_verdict giving up the verdict so far when a chunk fails
GenerateStepDropping(items, max_items, chunk_num, current_verdict, result) ==
  IF result.kind = "raised" THEN result
  ELSE IF result.kind = "None" THEN [kind |-> "return", tuple |-> NoneTuple]
  ELSE IF Len(items) > max_items /\ chunk_num + 1 < TotalChunks(Len(items), max_items)
       THEN [kind |-> "next_chunk"]
       ELSE [kind |-> "return", tuple |-> TupleOf(result)]

\* generate_daily_verdict once _call_verdict_api has returned result: it
\* returns a tuple, lets the exception through, or goes on to the next chunk
GenerateStep(items, max_items, chunk_num, current_verdict, result) ==
  IF result.kind = "raised" THEN result
  ELSE IF Len(items) <= max_items THEN [kind |-> "return", tuple |-> TupleOf(result)]
  ELSE IF result.kind = "None" THEN [kind |-> "return", tuple |-> TupleOf(current_verdict)]
  ELSE IF chunk_num + 1 < TotalChunks(Len(items), max_items)
       THEN [kind |-> "next_chunk"]
       ELSE [kind |-> "return", tuple |-> TupleOf(result)]

(***************************************************************************)
(* DailyVerdict and table daily_verdicts                                   *)
(***************************************************************************)
FallbackSummary == <<"(Verdict evaluation failed - scores unavailable)">>

ScoreValid(score) == score.none \/ score.v \in 0..100

\* the field constraints of the model: ge=0, le=100 on the scores
DailyVerdictValid(verdict) ==
  /\ ~IsNone(verdict.summary)
  /\ ScoreValid(verdict.political_score)
  /\ ScoreValid(verdict.economic_score)
  /\ ScoreValid(verdict.domestic_political_score)
  /\ ScoreValid(verdict.domestic_economic_score)
  /\ verdict.item_count >= 0

DailyVerdict(scope, date, summary, tuple, item_count) ==
  [scope_key |-> scope.key, date |-> date, platform |-> scope.platform,
   region |-> scope.region, summary |-> summary,
   political_score |-> tuple.global_political_score,
   economic_score |-> tuple.global_economic_score,
   domestic_political_score |-> tuple.domestic_political_score,
   domestic_economic_score |-> tuple.domestic_economic_score,
   item_count |-> item_count]

fallback_verdict(scope, date) ==
  DailyVerdict(scope, date, FallbackSummary, NoneTuple, Len(scope.items))

\* the verdict with the items left uncounted
VerdictFromTupleUncounted(scope, date, tuple) ==
  DailyVerdict(scope, date,
               IF IsNone(tuple.summary) THEN FallbackSummary ELSE tuple.summary,
               tuple, 0)

\* the verdict built from what generate_daily_verdict returned
VerdictFromTuple(scope, date, tuple) ==
  DailyVerdict(scope, date,
               IF IsNone(tuple.summary) THEN FallbackSummary ELSE tuple.summary,
               tuple, Len(scope.items))

\* VerdictToSave with item_count taken from items_processed: the items the AI
\* had evaluated when generate_daily_verdict returned
VerdictToSaveProcessed(scope, date, step) ==
  [(IF step.kind = "raised" THEN fallback_verdict(scope, date)
    ELSE IF DailyVerdictValid(VerdictFromTuple(scope, date, step.tuple))
         THEN VerdictFromTuple(scope, date, step.tuple)
         ELSE fallback_verdict(scope, date))
     EXCEPT !.item_count = vp.items_processed]

\* the verdict a scope is saved with: the one built in the try block, or the
\* fallback of the except block when generation or validation raised
VerdictToSave(scope, date, step) ==
  IF step.kind = "raised" THEN fallback_verdict(scope, date)
  ELSE IF DailyVerdictValid(VerdictFromTuple(scope, date, step.tuple))
       THEN VerdictFromTuple(scope, date, step.tuple)
       ELSE fallback_verdict(scope, date)

\* INSERT ... without the ON CONFLICT clause
save_daily_verdict_insert(table, verdict, id) ==
  table \union {[id |-> id] @@ verdict}

\* INSERT ... ON CONFLICT (date, scope_key) DO NOTHING: the first row stays
save_daily_verdict_keep(table, verdict, id) ==
  IF \E r \in table : r.date = verdict.date /\ r.scope_key = verdict.scope_key
  THEN table
  ELSE table \union {[id |-> id] @@ verdict}

\* INSERT ... ON CONFLICT (date, scope_key) DO UPDATE SET ...
save_daily_verdict(table, verdict, id) ==
  IF \E r \in table : r.date = verdict.date /\ r.scope_key = verdict.scope_key
  THEN { IF r.date = verdict.date /\ r.scope_key = verdict.scope_key
         THEN [id |-> r.id] @@ verdict ELSE r : r \in table }
  ELSE table \union {[id |-> id] @@ verdict}

(***************************************************************************)
(* The verdict pass and the financial analysis of one run                  *)
(***************************************************************************)
MaxFeed == 2

MaxVerdictItems == 2

MaxJsonRetry == 2

MaxPasses == 1

\* datetime.now(timezone.utc).strftime("%Y-%m-%d") during the run
Today == "d1"

VerdictDates == {Today}

FeedItems ==
  { [title |-> <<"t">>, platform |-> <<"p1">>, region |-> None],
    [title |-> <<"u">>, platform |-> <<" ", "p1">>, region |-> <<"r1">>] }

\* what asyncio.gather(*tasks, return_exceptions=True) holds for one task: the
\* CollectionResult collect_platform returned, or the exception it raised
TaskReturned(result) == [raised |-> FALSE, result |-> result]

TaskRaised(exc) == [raised |-> TRUE, exc |-> exc]

Reports == { [ticker |-> "T1"], [ticker |-> "T2"] }

\* the results collect_all gathered: the feed, and possibly a platform that failed
Results(items, failed) ==
  <<[platform |-> <<"p1">>, items |-> items, error |-> None]>>
  \o (IF failed
      THEN <<[platform |-> <<"p2">>,
              items |-> <<[title |-> <<"v">>, platform |-> <<"p2">>, region |-> None]>>,
              error |-> <<"e">>]>>
      ELSE <<>>)

\* the results without the platforms that raised
FinalResultsDropping(target_platforms, results) ==
  [i \in 1..Len(SelectSeq(results, LAMBDA r : ~r.raised)) |->
     SelectSeq(results, LAMBDA r : ~r.raised)[i].result]

\* "for platform_name, result in zip(target_platforms, results)": an exception
\* becomes CollectionResult(platform=platform_name, region=region, error=str(result))
FinalResults(target_platforms, results) ==
  [i \in 1..Len(target_platforms) |->
     IF results[i].raised
     THEN [platform |-> target_platforms[i], region |-> None, items |-> <<>>,
           error |-> results[i].exc]
     ELSE results[i].result]

\* the run of one date: the platforms collect_all is asked for with what their
\* tasks give, and the item dicts generate_verdicts_from_items is given
Feeds ==
  { [items |-> items, date |-> date,
     target_platforms |-> <<(<<"p1">>), (<<"p2">>)>>,
     results |-> [i \in 1..2 |-> TaskReturned(Results(items, TRUE)[i])]] :
      items \in UNION { [1..n -> FeedItems] : n \in 0..MaxFeed },
      date \in VerdictDates }

\* how often each entry point has been called: not yet
NoPasses == [collect_all |-> 0, generate_verdicts_from_items |-> 0]

IdleIdentity == idOrig = None /\ idCur = None

InitVerdict ==
  /\ IdleIdentity
  /\ IdleStore
  /\ IdleBatch
  /\ IdleFinStore
  /\ IdleConn
  /\ IdleRun
  /\ IdleTx
  /\ cfg \in [command : {"verdicts", "financial"},
              configured : BOOLEAN,
              ai_max_verdict_items : 1..MaxVerdictItems,
              ai_json_number_retry : 1..MaxJsonRetry]
  /\ feed \in Feeds
  /\ vp = [pc |-> "idle"]
  /\ collaborator = Responses
  /\ daily_verdicts = {}
  /\ nextVid = 1
  /\ vcall = [outcome |-> "nothing"]
  /\ vdone = [any |-> FALSE]
  /\ vpassed = [n |-> 0, ran |-> NoPasses]
  /\ fin = [pc |-> "idle"]
  /\ fcall = [outcome |-> "nothing"]

\* what one pass of either loop makes of each response
VerdictAttempts == [resp \in AllResponses |-> VerdictAttempt(resp)]

FinancialAttempts == [resp \in AllResponses |-> FinancialAttempt(resp)]

CurrentScope == vp.scopes[vp.idx]

\* the prompt of chunk chunk_num of a scope's items
PromptFor(items, max_items, chunk_num, current_verdict, items_processed) ==
  IF Len(items) <= max_items THEN _build_daily_verdict_prompt(items, max_items)
  ELSE IF chunk_num = 0
       THEN _build_daily_verdict_prompt(ChunkItems(items, 0, max_items), max_items)
       ELSE _build_daily_verdict_continuation_prompt(
              ChunkItems(items, chunk_num, max_items), current_verdict,
              chunk_num + 1, TotalChunks(Len(items), max_items), items_processed)

\* the pass waits for the answer to the first request of a chunk
Calling(entry, date, scopes, idx, saved, chunk_num, current_verdict, items_processed, all_failed, prompt, calls, answers) ==
  [pc |-> "calling", entry |-> entry, date |-> date, scopes |-> scopes, idx |-> idx,
   saved |-> saved, chunk_num |-> chunk_num, current_verdict |-> current_verdict,
   items_processed |-> items_processed, all_failed |-> all_failed,
   attempt |-> 0, prompt |-> prompt, sent |-> <<prompt>>,
   calls |-> Append(calls, prompt), answers |-> answers]

\* "if not items: continue"
RECURSIVE NextWithItems(_, _)
NextWithItems(scopes, idx) ==
  IF idx > Len(scopes) THEN idx
  ELSE IF scopes[idx].items = <<>> THEN NextWithItems(scopes, idx + 1)
  ELSE idx

\* the pass is over: what it was, the scopes it went through and what its
\* entry point returns (collect_all its final list, the other its count)
Passed(ran, entry, date, scopes, saved) ==
  [n |-> vpassed.n + 1, ran |-> ran, entry |-> entry, date |-> date,
   saved |-> saved,
   scopes |-> [i \in 1..Len(scopes) |->
                 [key |-> scopes[i].key, item_count |-> Len(scopes[i].items),
                  items |-> scopes[i].items]],
   returned |-> IF entry = "collect_all"
                THEN FinalResults(feed.target_platforms, feed.results)
                ELSE saved]

\* the loop over the scopes reaches scope idx and posts its first request, or
\* it is over and the pass returns
ContinuePass(ran, entry, date, scopes, idx, saved) ==
  IF idx > Len(scopes)
  THEN /\ vp' = [pc |-> "idle"]
       /\ vpassed' = Passed(ran, entry, date, scopes, saved)
  ELSE /\ vp' = Calling(entry, date, scopes, idx, saved, 0, NoVerdict, 0, TRUE,
                        PromptFor(scopes[idx].items, cfg.ai_max_verdict_items, 0,
                                  NoVerdict, 0),
                        <<>>, <<>>)
       /\ vpassed' = [n |-> vpassed.n, ran |-> ran]

collect_all ==
  /\ \/ cfg.command = "verdicts"
     \/ cfg.command = "collect_all" /\ feed.gathered /\ vpassed.ran.collect_all = 0
  /\ vp.pc = "idle"
  /\ vpassed.ran.collect_all < MaxPasses
  /\ \E scopes \in {_build_daily_analysis_scopes(
                        FinalResults(feed.target_platforms, feed.results))} :
       IF ~cfg.configured
       THEN /\ vpassed' = Passed([vpassed.ran EXCEPT !.collect_all = @ + 1],
                                  "collect_all", Today, scopes, 0)
            /\ UNCHANGED vp
       ELSE ContinuePass([vpassed.ran EXCEPT !.collect_all = @ + 1],
                         "collect_all", Today, scopes, NextWithItems(scopes, 1), 0)
  /\ vcall' = [outcome |-> "nothing"]
  /\ vdone' = [any |-> FALSE]
  /\ UNCHANGED <<cfg, feed, collaborator, daily_verdicts, nextVid, fin, fcall>>
  /\ UNCHANGED <<identVars, txVars, runVars, connVars, storeVars, batchVars, finStoreVars>>

generate_verdicts_from_items ==
  /\ cfg.command = "verdicts" /\ vp.pc = "idle"
  /\ vpassed.ran.generate_verdicts_from_items < MaxPasses
  /\ \E scopes \in {_build_scopes_from_items(feed.items)} :
       IF ~cfg.configured \/ feed.items = <<>>
       THEN /\ vpassed' = Passed([vpassed.ran EXCEPT
                                    !.generate_verdicts_from_items = @ + 1],
                                  "generate_verdicts_from_items", feed.date, scopes, 0)
            /\ UNCHANGED vp
       ELSE ContinuePass([vpassed.ran EXCEPT !.generate_verdicts_from_items = @ + 1],
                         "generate_verdicts_from_items", feed.date, scopes,
                         NextWithItems(scopes, 1), 0)
  /\ vcall' = [outcome |-> "nothing"]
  /\ vdone' = [any |-> FALSE]
  /\ UNCHANGED <<cfg, feed, collaborator, daily_verdicts, nextVid, fin, fcall>>
  /\ UNCHANGED <<identVars, txVars, runVars, connVars, storeVars, batchVars, finStoreVars>>

\* _call_verdict_api: the response does not parse and attempts remain, so the
\* same body is posted again
VerdictApiRetry ==
  /\ vp.pc = "calling"
  /\ \E resp \in collaborator :
       /\ VerdictAttempts[resp].kind = "parse_failed"
       /\ vp.attempt + 1 < cfg.ai_json_number_retry
       /\ vcall' = [resp |-> resp, attempt |-> vp.attempt, sent |-> vp.sent,
                    retry |-> cfg.ai_json_number_retry, outcome |-> "retry",
                    result |-> NoVerdict]
       /\ vp' = [vp EXCEPT !.attempt = @ + 1, !.sent = Append(@, vp.prompt),
                           !.calls = Append(@, vp.prompt),
                           !.answers = Append(@, NoVerdict)]
  /\ UNCHANGED <<cfg, feed, collaborator, daily_verdicts, nextVid, vdone, vpassed, fin, fcall>>
  /\ UNCHANGED <<identVars, txVars, runVars, connVars, storeVars, batchVars, finStoreVars>>

\* FinishScope that counts a verdict only when the AI gave one: the fallback
\* verdict is saved and left out of verdicts_generated
FinishScopeCountingAI(result, step) ==
  /\ daily_verdicts' = save_daily_verdict(daily_verdicts,
                         VerdictToSave(CurrentScope, vp.date, step), nextVid)
  /\ nextVid' = nextVid + 1
  /\ vdone' = [any |-> TRUE, scope_key |-> CurrentScope.key, date |-> vp.date,
               item_count |-> Len(CurrentScope.items),
               all_failed |-> vp.all_failed /\ result.kind # "dict",
               returned |-> step,
               row |-> VerdictToSave(CurrentScope, vp.date, step),
               items |-> CurrentScope.items,
               calls |-> vp.calls, answers |-> Append(vp.answers, result)]
  /\ ContinuePass(vpassed.ran, vp.entry, vp.date, vp.scopes,
                  NextWithItems(vp.scopes, vp.idx + 1),
                  IF vp.all_failed /\ result.kind # "dict" THEN vp.saved ELSE vp.saved + 1)

\* the scope is through: its verdict is saved and the pass goes on
FinishScope(result, step) ==
  /\ daily_verdicts' = save_daily_verdict(daily_verdicts,
                         VerdictToSave(CurrentScope, vp.date, step), nextVid)
  /\ nextVid' = nextVid + 1
  /\ vdone' = [any |-> TRUE, scope_key |-> CurrentScope.key, date |-> vp.date,
               item_count |-> Len(CurrentScope.items),
               all_failed |-> vp.all_failed /\ result.kind # "dict",
               returned |-> step,
               row |-> VerdictToSave(CurrentScope, vp.date, step),
               items |-> CurrentScope.items,
               calls |-> vp.calls, answers |-> Append(vp.answers, result)]
  /\ ContinuePass(vpassed.ran, vp.entry, vp.date, vp.scopes,
                  NextWithItems(vp.scopes, vp.idx + 1), vp.saved + 1)

\* the next chunk of the scope is evaluated with result as the verdict so far
NextChunk(result) ==
  /\ vp' = Calling(vp.entry, vp.date, vp.scopes, vp.idx, vp.saved, vp.chunk_num + 1,
                   result,
                   min(vp.chunk_num * cfg.ai_max_verdict_items
                         + cfg.ai_max_verdict_items, Len(CurrentScope.items)),
                   FALSE,
                   PromptFor(CurrentScope.items, cfg.ai_max_verdict_items,
                             vp.chunk_num + 1, result,
                             min(vp.chunk_num * cfg.ai_max_verdict_items
                                   + cfg.ai_max_verdict_items, Len(CurrentScope.items))),
                   vp.calls, Append(vp.answers, result))
  /\ UNCHANGED <<daily_verdicts, nextVid, vdone, vpassed>>

\* _call_verdict_api returns or raises, and generate_daily_verdict and the
\* pass run on to the next request or to the end of the pass
VerdictApiReturn ==
  /\ vp.pc = "calling"
  /\ \E resp \in collaborator :
       \E result \in {ApiReturn(VerdictAttempts[resp])} :
         \E step \in {GenerateStep(CurrentScope.items, cfg.ai_max_verdict_items,
                                   vp.chunk_num, vp.current_verdict, result)} :
           /\ VerdictAttempts[resp].kind = "parse_failed"
                => vp.attempt + 1 >= cfg.ai_json_number_retry
           /\ vcall' = [resp |-> resp, attempt |-> vp.attempt, sent |-> vp.sent,
                        retry |-> cfg.ai_json_number_retry, outcome |-> result.kind,
                        result |-> result]
           /\ IF step.kind = "next_chunk" THEN NextChunk(result)
              ELSE FinishScope(result, step)
  /\ UNCHANGED <<cfg, feed, collaborator, fin, fcall>>
  /\ UNCHANGED <<identVars, txVars, runVars, connVars, storeVars, batchVars, finStoreVars>>

_build_financial_analysis_prompt(report) == [kind |-> "financial", report |-> report]

analyze_financial_report ==
  /\ cfg.command = "financial" /\ cfg.configured /\ fin.pc = "idle"
  /\ \E report \in Reports :
       fin' = [pc |-> "calling", attempt |-> 0,
               prompt |-> _build_financial_analysis_prompt(report),
               sent |-> <<_build_financial_analysis_prompt(report)>>]
  /\ UNCHANGED <<cfg, feed, collaborator, vp, daily_verdicts, nextVid, vcall, vdone, vpassed, fcall>>
  /\ UNCHANGED <<identVars, txVars, runVars, connVars, storeVars, batchVars, finStoreVars>>

\* the response is no JSON or is incomplete and attempts remain: next attempt
FinancialApiRetry ==
  /\ fin.pc = "calling"
  /\ \E resp \in collaborator :
       /\ FinancialAttempts[resp].kind \in {"parse_failed", "incomplete"}
       /\ fin.attempt + 1 < cfg.ai_json_number_retry
       /\ fcall' = [resp |-> resp, attempt |-> fin.attempt, sent |-> fin.sent,
                    retry |-> cfg.ai_json_number_retry, outcome |-> "retry",
                    result |-> FinancialAttempts[resp]]
       /\ fin' = [fin EXCEPT !.attempt = @ + 1, !.sent = Append(@, fin.prompt)]
  /\ UNCHANGED <<cfg, feed, collaborator, vp, daily_verdicts, nextVid, vcall, vdone, vpassed>>
  /\ UNCHANGED <<identVars, txVars, runVars, connVars, storeVars, batchVars, finStoreVars>>

\* analyze_financial_report returns its tuple, (None, None, None), or raises
FinancialApiReturn ==
  /\ fin.pc = "calling"
  /\ \E resp \in collaborator :
       /\ FinancialAttempts[resp].kind \in {"parse_failed", "incomplete"}
            => fin.attempt + 1 >= cfg.ai_json_number_retry
       /\ fcall' = [resp |-> resp, attempt |-> fin.attempt, sent |-> fin.sent,
                    retry |-> cfg.ai_json_number_retry,
                    outcome |-> IF FinancialAttempts[resp].kind \in {"tuple", "raised"}
                                THEN FinancialAttempts[resp].kind ELSE "None",
                    result |-> FinancialAttempts[resp]]
       /\ fin' = [pc |-> "idle"]
  /\ UNCHANGED <<cfg, feed, collaborator, vp, daily_verdicts, nextVid, vcall, vdone, vpassed>>
  /\ UNCHANGED <<identVars, txVars, runVars, connVars, storeVars, batchVars, finStoreVars>>

NextVerdict ==
  \/ collect_all
  \/ generate_verdicts_from_items
  \/ VerdictApiRetry
  \/ VerdictApiReturn
  \/ analyze_financial_report
  \/ FinancialApiRetry
  \/ FinancialApiReturn

SpecVerdict == InitVerdict /\ [][NextVerdict]_vars

(***************************************************************************)
(* Properties of the verdict engine                                        *)
(***************************************************************************)
ScoreKeys ==
  {"global_political_score", "global_economic_score", "domestic_political_score",
   "domestic_economic_score"}

RowScores(r) ==
  {r.political_score, r.economic_score, r.domestic_political_score,
   r.domestic_economic_score}

IsFallbackRow(r) ==
  r.summary = FallbackSummary /\ \A score \in RowScores(r) : score.none

RowsFor(date, scope_key) ==
  { r \in daily_verdicts : r.date = date /\ r.scope_key = scope_key }

\* the items of the feed that a stored verdict's platform and region select
ItemsInScope(r) ==
  { i \in 1..Len(feed.items) :
      /\ IsNone(r.platform) \/ strip(OrEmpty(feed.items[i].platform)) = r.platform
      /\ IsNone(r.region) \/ strip(OrEmpty(feed.items[i].region)) = r.region }

\* the JSON document a response carries
RawDoc(resp) == json_loads(_extract_json_text(_first_choice_content(resp.data)))

IsObject(resp) == resp.transport = "ok" /\ RawDoc(resp).k = "obj"

\* the response carries an integer score outside [0,100]
OutOfRange(resp) ==
  /\ IsObject(resp)
  /\ \E key \in ScoreKeys :
       /\ get(RawDoc(resp), key).k = "int"
       /\ get(RawDoc(resp), key).n \notin 0..100

\* the response carries a score that int() does not convert
Unconvertible(resp) ==
  /\ IsObject(resp)
  /\ \E key \in ScoreKeys : int(get(RawDoc(resp), key)).exc # ""

\* C5 as stated: after a completed verdict pass every scope with at least one
\* item has exactly one verdict row for (date, scope_key).
C5_EveryScopeOneRow ==
  (vp.pc = "idle" /\ vpassed.n > 0) =>
    \A i \in 1..Len(vpassed.scopes) :
      vpassed.scopes[i].item_count > 0 =>
        Cardinality(RowsFor(vpassed.date, vpassed.scopes[i].key)) = 1

\* C5, amended: after a completed verdict pass of a run whose AI is
\* configured, every scope with at least one item has exactly one verdict row
\* for (date, scope_key), and that row is the fallback verdict or carries a
\* summary and all four scores.
C5_ConfiguredEveryScopeOneRow ==
  (cfg.configured /\ vp.pc = "idle" /\ vpassed.n > 0) =>
    \A i \in 1..Len(vpassed.scopes) :
      vpassed.scopes[i].item_count > 0 =>
        /\ Cardinality(RowsFor(vpassed.date, vpassed.scopes[i].key)) = 1
        /\ \A r \in RowsFor(vpassed.date, vpassed.scopes[i].key) :
             \/ IsFallbackRow(r)
             \/ ~IsNone(r.summary) /\ \A score \in RowScores(r) : ~score.none

C5_Witness ==
  /\ cfg.configured /\ vp.pc = "idle" /\ vpassed.n = 2
  /\ Len(vpassed.scopes) = 4
  /\ \E r \in daily_verdicts : IsFallbackRow(r)
  /\ \E r \in daily_verdicts : ~IsFallbackRow(r)

\* the keys of the non-empty scopes the item dicts fall into
NonEmptyScopeKeys(items) ==
  { _build_scopes_from_items(items)[i].key :
      i \in { k \in 1..Len(_build_scopes_from_items(items)) :
                _build_scopes_from_items(items)[k].items # <<>> } }

\* a call of generate_verdicts_from_items has returned
GeneratedFromItems ==
  vp.pc = "idle" /\ vpassed.n > 0 /\ vpassed.entry = "generate_verdicts_from_items"

\* C33: generate_verdicts_from_items(items, date) returns 0 and stores nothing
\* when AI is not configured or items is empty; otherwise it returns the
\* number of non-empty scopes of items, the date then has exactly one row for
\* each of these scopes, and when the table was empty before the call these are
\* all its rows
C33_ReturnsScopeCount ==
  GeneratedFromItems =>
    IF ~cfg.configured \/ feed.items = <<>>
    THEN vpassed.returned = 0 /\ (vpassed.n = 1 => daily_verdicts = {})
    ELSE /\ vpassed.returned = Cardinality(NonEmptyScopeKeys(feed.items))
         /\ \A key \in NonEmptyScopeKeys(feed.items) :
              Cardinality(RowsFor(vpassed.date, key)) = 1
         /\ vpassed.n = 1 =>
              { r.scope_key : r \in daily_verdicts } = NonEmptyScopeKeys(feed.items)
         /\ vpassed.n = 1 => Cardinality(daily_verdicts) = vpassed.returned

\* a call on an empty table returned 4 for items of one platform, one of them
\* with a region; a fallback verdict and an AI verdict are among the four rows
C33_Witness ==
  /\ GeneratedFromItems /\ cfg.configured /\ vpassed.n = 1
  /\ vpassed.returned = 4 /\ Cardinality(daily_verdicts) = 4
  /\ \E r \in daily_verdicts : IsFallbackRow(r)
  /\ \E r \in daily_verdicts : ~IsFallbackRow(r)

\* C6: when every AI call made for a non-empty scope failed, the verdict
\* stored for the scope has the fallback summary, no scores, and item_count
\* equal to the number of items of the scope.
C6_AllFailedFallback ==
  (vdone.any /\ vdone.all_failed) =>
    /\ RowsFor(vdone.date, vdone.scope_key) # {}
    /\ \A r \in RowsFor(vdone.date, vdone.scope_key) :
         /\ IsFallbackRow(r)
         /\ r.item_count = Cardinality(ItemsInScope(r))
         /\ r.item_count > 0

C6_Witness ==
  /\ vdone.any /\ vdone.all_failed
  /\ vdone.item_count = 2
  /\ vcall.attempt = 1 /\ vcall.outcome = "None"
  /\ \E r \in RowsFor(vdone.date, vdone.scope_key) : r.item_count = 2

\* how many items the results that succeeded carry
RECURSIVE ItemsOfSuccessful(_)
ItemsOfSuccessful(results) ==
  IF results = <<>> THEN 0
  ELSE (IF ~Head(results).raised /\ IsNone(Head(results).result.error)
        THEN Len(Head(results).result.items) ELSE 0)
       + ItemsOfSuccessful(Tail(results))

\* C34: the item_count of every stored verdict, AI verdict, partial verdict
\* or fallback, is the number of items its platform and region select, and
\* the verdict of scope "all" counts the items of all successful results
C34_ItemCountIsScopeSize ==
  \A r \in daily_verdicts :
    /\ r.item_count = Cardinality(ItemsInScope(r))
    /\ r.scope_key = <<"all">> => r.item_count = ItemsOfSuccessful(feed.results)

\* a scope of two items went in two chunks, the first gave a verdict and the
\* second failed: the partial verdict is stored with item_count 2
C34_Witness ==
  /\ vdone.any /\ vdone.item_count = 2 /\ vdone.scope_key = <<"all">>
  /\ vdone.answers[1].kind = "dict"
  /\ vdone.answers[Len(vdone.answers)].kind # "dict"
  /\ \E r \in RowsFor(vdone.date, vdone.scope_key) :
       ~IsFallbackRow(r) /\ r.item_count = 2

Clamped(n) == IF n > 100 THEN 100 ELSE IF n < 0 THEN 0 ELSE n

\* C7 as stated: a response with a score outside [0,100] is rejected, so it
\* never yields a result.
C7_OutOfRangeRejected ==
  (vcall.outcome # "nothing" /\ OutOfRange(vcall.resp)) => vcall.outcome # "dict"

\* C7, amended: a response whose integer scores lie outside [0,100] and which
\* is otherwise complete is accepted on that attempt, each such score clamped
\* to the nearer end of the range: above 100 gives 100, below 0 gives 0.
C7_OutOfRangeClamped ==
  (vcall.outcome # "nothing" /\ OutOfRange(vcall.resp)
     /\ ~Unconvertible(vcall.resp)
     /\ get(RawDoc(vcall.resp), "summary").k = "str"
     /\ strip(get(RawDoc(vcall.resp), "summary").s) # <<>>) =>
    /\ vcall.outcome = "dict"
    /\ \A key \in ScoreKeys :
         get(RawDoc(vcall.resp), key).k = "int" =>
           vcall.result[key] = Clamped(get(RawDoc(vcall.resp), key).n)

C7_Witness ==
  /\ vcall.outcome = "dict" /\ OutOfRange(vcall.resp)
  /\ vcall.result.global_political_score = 100
  /\ vcall.result.global_economic_score = 0

OptionalInRange(score) == score.none \/ score.v \in 0..100

TupleScores(tuple) ==
  {tuple.global_political_score, tuple.global_economic_score,
   tuple.domestic_political_score, tuple.domestic_economic_score}

\* C8: every score generate_daily_verdict returns and every stored score is
\* None or an integer in [0,100]; a verdict with a summary has all four
\* scores and a non-blank summary; and an attempt whose response carries a
\* score that fails integer conversion yields no verdict.
C8_ScoresBounded ==
  /\ \A r \in daily_verdicts :
       /\ \A score \in RowScores(r) : OptionalInRange(score)
       /\ ~IsFallbackRow(r) =>
            /\ \A score \in RowScores(r) : ~score.none
            /\ ~IsNone(r.summary) /\ strip(r.summary) # <<>>
  /\ (vdone.any /\ vdone.returned.kind = "return") =>
       /\ \A score \in TupleScores(vdone.returned.tuple) : OptionalInRange(score)
       /\ ~IsNone(vdone.returned.tuple.summary) =>
            /\ \A score \in TupleScores(vdone.returned.tuple) : ~score.none
            /\ strip(vdone.returned.tuple.summary) # <<>>
  /\ (vcall.outcome # "nothing" /\ Unconvertible(vcall.resp)) => vcall.outcome # "dict"

C8_Witness ==
  /\ vdone.any /\ vdone.returned.kind = "return"
  /\ vdone.returned.tuple.global_political_score = Some(100)
  /\ vdone.returned.tuple.domestic_economic_score = Some(85)
  /\ OutOfRange(vcall.resp)
  /\ \E r \in daily_verdicts : ~IsFallbackRow(r) /\ r.political_score = Some(100)

\* the response is received and is no acceptable verdict
ValidationFails(resp) ==
  /\ resp.transport = "ok"
  /\ \/ ~IsObject(resp)
     \/ Unconvertible(resp)
     \/ get(RawDoc(resp), "summary").k # "str"
     \/ strip(get(RawDoc(resp), "summary").s) = <<>>

\* C9: for one prompt the engine posts the identical prompt at most
\* ai_json_number_retry times, posts it again when validation of a response
\* fails and attempts remain, stops at the first valid response, and ends
\* with a result or with no result, never with an exception.
C9_RetrySamePromptNoRaise ==
  vcall.outcome # "nothing" =>
    /\ Len(vcall.sent) <= vcall.retry
    /\ \A i \in 1..Len(vcall.sent) : vcall.sent[i] = vcall.sent[1]
    /\ (ValidationFails(vcall.resp) /\ vcall.attempt + 1 < vcall.retry)
         => vcall.outcome = "retry"
    /\ (vcall.resp.transport = "ok" /\ ~ValidationFails(vcall.resp))
         => vcall.outcome = "dict"
    /\ vcall.outcome # "raised"

RequestFailed(resp) == resp.transport \in {"http_error", "timeout"}

\* the response is received, has content, and the content is no JSON
Malformed(resp) ==
  /\ resp.transport = "ok"
  /\ _first_choice_content(resp.data) # <<>>
  /\ RawDoc(resp).k = "error"

MaxChunkFeed == 5

Titles == <<"t1", "t2", "t3", "t4", "t5", "t6", "t7", "t8">>

\* items without platform or region, so that "all" is their one scope
ChunkFeeds ==
  { [items |-> [i \in 1..n |-> [title |-> <<Titles[i]>>, platform |-> None,
                                 region |-> None]],
     date |-> Today] : n \in 1..MaxChunkFeed }

InitChunked ==
  /\ IdleIdentity
  /\ IdleStore
  /\ IdleBatch
  /\ IdleFinStore
  /\ IdleConn
  /\ IdleRun
  /\ IdleTx
  /\ cfg \in [command : {"verdicts"},
              configured : {TRUE},
              ai_max_verdict_items : 1..MaxVerdictItems,
              ai_json_number_retry : 1..MaxJsonRetry]
  /\ feed \in ChunkFeeds
  /\ vp = [pc |-> "idle"]
  /\ collaborator = ChunkResponses
  /\ daily_verdicts = {}
  /\ nextVid = 1
  /\ vcall = [outcome |-> "nothing"]
  /\ vdone = [any |-> FALSE]
  /\ vpassed = [n |-> 0, ran |-> NoPasses]
  /\ fin = [pc |-> "idle"]
  /\ fcall = [outcome |-> "nothing"]

NextChunked ==
  \/ generate_verdicts_from_items
  \/ VerdictApiRetry
  \/ VerdictApiReturn

SpecChunked == InitChunked /\ [][NextChunked]_vars

\* ceil(n / m), by its definition
CeilDiv(n, m) == CHOOSE c \in 0..n : c * m >= n /\ (c - 1) * m < n

\* the items a prompt lists, in order
ItemsOfPrompt(prompt) == [i \in 1..Len(prompt.content) |-> prompt.content[i].item]

RECURSIVE ItemsOfPrompts(_)
ItemsOfPrompts(prompts) ==
  IF prompts = <<>> THEN <<>>
  ELSE ItemsOfPrompt(Head(prompts)) \o ItemsOfPrompts(Tail(prompts))

\* every request of the finished scope was answered with a valid verdict
AllSucceededFirst ==
  vdone.any /\ \A i \in 1..Len(vdone.answers) : vdone.answers[i].kind = "dict"

\* the answers of the finished scope that were valid verdicts, in order
GoodAnswers == SelectSeq(vdone.answers, LAMBDA a : a.kind = "dict")

\* C11: for a scope of N > max_items items whose every AI call succeeds at
\* once, generate_daily_verdict issues exactly ceil(N / max_items) calls over
\* consecutive, disjoint chunks that cover every item exactly once; each call
\* after the first carries the previous call's verdict and only the new
\* chunk's items; the returned verdict is the last call's.  For
\* N <= max_items one prompt listing every item is used.
C11_ChunksCoverOnce ==
  AllSucceededFirst =>
    IF Len(vdone.items) <= cfg.ai_max_verdict_items
    THEN /\ Len(vdone.calls) = 1
         /\ vdone.calls[1].kind = "standard"
         /\ ItemsOfPrompt(vdone.calls[1]) = vdone.items
    ELSE /\ Len(vdone.calls) = CeilDiv(Len(vdone.items), cfg.ai_max_verdict_items)
         /\ ItemsOfPrompts(vdone.calls) = vdone.items
         /\ \A k \in 1..Len(vdone.calls) :
              /\ Len(vdone.calls[k].content) =
                   (IF k < Len(vdone.calls) THEN cfg.ai_max_verdict_items
                    ELSE Len(vdone.items) - (k - 1) * cfg.ai_max_verdict_items)
              /\ k = 1 => vdone.calls[k].kind = "standard"
              /\ k > 1 => /\ vdone.calls[k].kind = "continuation"
                          /\ vdone.calls[k].previous_verdict = vdone.answers[k - 1]
         /\ vdone.returned.kind = "return"
         /\ vdone.returned.tuple = TupleOf(vdone.answers[Len(vdone.answers)])

C11_Witness ==
  /\ AllSucceededFirst
  /\ Len(vdone.items) = 5 /\ cfg.ai_max_verdict_items = 2
  /\ Len(vdone.calls) = 3
  /\ vdone.answers[2] # vdone.answers[3]
  /\ vdone.returned.tuple = TupleOf(vdone.answers[3])

\* C12: in chunked evaluation, when the call for chunk k >= 2 ends without a
\* verdict, generate_daily_verdict returns exactly the verdict of chunk k-1
\* and issues no call for a later chunk; when chunk 1 fails it returns no
\* result (all five fields None) and issues no further call.
C12_FailedChunkKeepsPrevious ==
  (/\ vdone.any
   /\ Len(vdone.items) > cfg.ai_max_verdict_items
   /\ vdone.answers[Len(vdone.answers)].kind = "None") =>
    /\ vdone.returned.kind = "return"
    /\ vdone.returned.tuple =
         (IF GoodAnswers = <<>> THEN NoneTuple
          ELSE TupleOf(GoodAnswers[Len(GoodAnswers)]))
    /\ \A i \in 1..Len(vdone.calls) :
         \A j \in 1..Len(vdone.calls[i].content) :
           vdone.calls[i].content[j].idx
             <= (Len(GoodAnswers) + 1) * cfg.ai_max_verdict_items
    /\ Len(vdone.calls) = Len(vdone.answers)

C12_Witness ==
  /\ vdone.any
  /\ Len(vdone.items) = 5 /\ cfg.ai_max_verdict_items = 2
  /\ Len(GoodAnswers) = 2 /\ GoodAnswers[1] # GoodAnswers[2]
  /\ vdone.answers[Len(vdone.answers)].kind = "None"
  /\ vdone.returned.tuple = TupleOf(GoodAnswers[2])

(***************************************************************************)
(* collect_platform: one platform's batch, enriched and saved item by item *)
(***************************************************************************)
MaxBatch == 3

MaxFailures == 2

\* label_item(title, description) of utils/labeller.py: the keyword labels
label_item(title) == <<"kw">>

TrendingItem(url, title) ==
  Item(url, <<"a">>, title) @@ [region |-> None, summary |-> None, labels |-> <<>>]

BatchItems ==
  { TrendingItem(None, <<"t">>), TrendingItem(UrlBase \o <<"x">>, <<"t">>) }

Batches == UNION { [1..n -> BatchItems] : n \in 1..MaxBatch }

CollectionResult(platform, items, error) ==
  [platform |-> platform, region |-> None, items |-> items, error |-> error]

\* what the collector's collect(region) gives when it runs
CollectResults ==
  { CollectionResult(<<"p", "1">>, <<>>, <<"e">>),
    CollectionResult(<<"p", "1">>, <<>>, None) }
  \cup { CollectionResult(<<"p", "1">>, b, None) : b \in Batches }

\* the collector create_collector hands back.  Kind "raise" is a class of
\* PLATFORM_REGISTRY: all of them inherit BaseCollector.safe_collect(self,
\* region), which takes no topic, so the call safe_collect(region=region,
\* topic=topic) raises TypeError before collect runs.  Kind "result" is a
\* collector whose safe_collect accepts that call and returns collect's result.
Adapters == { [kind |-> k, result |-> r] : k \in {"raise", "result"}, r \in CollectResults }

\* the classes PLATFORM_REGISTRY holds
Registered(a) == a.kind = "raise"

\* fetch_page_text returns the page's text or None
PageTexts == { <<"x">>, None }

AIAnswer(raised, summary, labels) ==
  [raised |-> raised, summary |-> summary, labels |-> labels]

\* what summarize_and_label and summarize_and_label_from_page may give: a
\* (summary, labels) pair, (None, []) on a failed request, or an exception
AIAnswers ==
  { AIAnswer(FALSE, <<"s">>, <<"l">>), AIAnswer(FALSE, <<"s">>, <<>>),
    AIAnswer(FALSE, None, <<>>), AIAnswer(TRUE, None, <<>>) }

\* save_item returns, or the database fails and it raises
StoreOutcomes == { "ok", "error" }

\* _get_connection with a database that cannot be resolved or reached raises
\* in every save_item call
SaveOutcomes == IF cfg.database_url = "unreachable" THEN {"error"} ELSE StoreOutcomes

InitBatch ==
  /\ IdleIdentity
  /\ IdleStore
  /\ cfg \in [command : {"collect_platform"}, configured : BOOLEAN,
              ai_max_failures_before_disable : 0..MaxFailures,
              ai_page_summary_enabled : BOOLEAN,
              database_url : {"reachable", "unreachable"}]
  /\ feed = [items |-> <<>>]
  /\ vp = [pc |-> "idle"]
  /\ collaborator = {}
  /\ daily_verdicts = {}
  /\ nextVid = 1
  /\ vcall = [outcome |-> "nothing"]
  /\ vdone = [any |-> FALSE]
  /\ vpassed = [n |-> 0, ran |-> NoPasses]
  /\ fin = [pc |-> "idle"]
  /\ fcall = [outcome |-> "nothing"]
  /\ adapter \in Adapters
  /\ cp = [pc |-> "idle"]
  /\ IdleFinStore
  /\ IdleConn
  /\ IdleRun
  /\ IdleTx

\* the loop over result.items stands before item idx
Looping(result, idx, ai_failures, ai_disabled, page_text_cache, page_summary_cache, trace) ==
  [pc |-> IF idx > Len(result.items) THEN "returned" ELSE "items",
   result |-> result, idx |-> idx, ai_failures |-> ai_failures,
   ai_disabled |-> ai_disabled, page_text_cache |-> page_text_cache,
   page_summary_cache |-> page_summary_cache, trace |-> trace]

\* create_collector, safe_collect, and the way to the first item or to the return
collect_platform ==
  /\ cfg.command \in {"collect_platform", "collect_all"} /\ cp.pc = "idle"
  /\ cp' = IF adapter.kind = "raise" THEN [pc |-> "raised", trace |-> <<>>]
           ELSE IF IsNone(adapter.result.error) /\ adapter.result.items # <<>>
                THEN Looping(adapter.result, 1, 0, FALSE, <<>>, <<>>, <<>>)
                ELSE [pc |-> "returned", result |-> adapter.result, trace |-> <<>>]
  /\ UNCHANGED <<adapter, identVars, txVars, runVars, connVars, storeVars, aiVars, finStoreVars>>

\* what the try block has in hand for one item; the AI calls counted when the
\* record is made are the calls of summarize_and_label_from_page
Enriched(raised, summary, labels, ai_calls, fetches, page_text_cache, page_summary_cache) ==
  [raised |-> raised, summary |-> summary, labels |-> labels, ai_calls |-> ai_calls,
   page_calls |-> ai_calls, fetches |-> fetches, page_text_cache |-> page_text_cache,
   page_summary_cache |-> page_summary_cache]

\* page_text_cache after "if cache_key not in page_text_cache: ... = page_text"
TextCacheAfter(page_text_cache, url, fetched) ==
  IF url \in DOMAIN page_text_cache THEN page_text_cache
  ELSE (url :> fetched) @@ page_text_cache

\* "if page_text: summarize_and_label_from_page", then the summary is cached
PageFetched(url, page_text_cache, page_summary_cache, fetches, page) ==
  IF Truthy(page_text_cache[url])
  THEN IF page.raised
       THEN Enriched(TRUE, None, <<>>, 1, fetches, page_text_cache, page_summary_cache)
       ELSE Enriched(FALSE, page.summary, page.labels, 1, fetches, page_text_cache,
                     (url :> [summary |-> page.summary, labels |-> page.labels])
                     @@ page_summary_cache)
  ELSE Enriched(FALSE, None, <<>>, 0, fetches, page_text_cache,
                (url :> [summary |-> None, labels |-> <<>>]) @@ page_summary_cache)

\* "if page_summary_enabled and item.url": the cached summary, or a fetch
PageSummary(item, page_text_cache, page_summary_cache, fetched, page) ==
  IF ~(cfg.ai_page_summary_enabled /\ Truthy(item.url))
  THEN Enriched(FALSE, None, <<>>, 0, 0, page_text_cache, page_summary_cache)
  ELSE IF item.url \in DOMAIN page_summary_cache
       THEN Enriched(FALSE, page_summary_cache[item.url].summary,
                     page_summary_cache[item.url].labels, 0, 0, page_text_cache,
                     page_summary_cache)
       ELSE PageFetched(item.url, TextCacheAfter(page_text_cache, item.url, fetched),
                        page_summary_cache,
                        IF item.url \in DOMAIN page_text_cache THEN 0 ELSE 1, page)

\* "if summary is None and not labels: summarize_and_label"
TitleSummary(e, title) ==
  IF e.raised \/ ~IsNone(e.summary) \/ e.labels # <<>> THEN e
  ELSE IF title.raised THEN [e EXCEPT !.raised = TRUE, !.ai_calls = @ + 1]
  ELSE [e EXCEPT !.summary = title.summary, !.labels = title.labels,
                 !.ai_calls = @ + 1]

\* the item ended in an AI failure: an exception, or no labels
Failed(e) == e.raised \/ e.labels = <<>>

\* item.summary and item.labels after the try block
EnrichedItem(item, e) ==
  IF Failed(e)
  THEN [item EXCEPT !.summary = IF e.raised \/ IsNone(e.summary) THEN @ ELSE e.summary,
                    !.labels = label_item(item.title)]
  ELSE [item EXCEPT !.summary = IF IsNone(e.summary) THEN @ ELSE e.summary,
                    !.labels = e.labels]

\* FailuresAfter counting every failure of the batch, never back to zero
FailuresAfterTotal(ai_failures, e) == IF Failed(e) THEN ai_failures + 1 ELSE ai_failures

\* ai_failures = 0 on labels, ai_failures += 1 otherwise
FailuresAfter(ai_failures, e) == IF Failed(e) THEN ai_failures + 1 ELSE 0

\* DisabledAfter disabling one failure late
DisabledAfterLate(ai_failures, ai_max_failures) == ai_failures > ai_max_failures

\* "if ai_failures >= ai_max_failures: ai_disabled = True"
DisabledAfter(ai_failures, ai_max_failures) == ai_failures >= ai_max_failures

\* a pass that neither fetched a page nor called the AI
NoCalls == [ai_calls |-> 0, page_calls |-> 0, fetches |-> 0, raised |-> FALSE]

\* what one pass of the loop did for its item
Traced(e, labelled, failed, disabled, saved) ==
  [ai_calls |-> e.ai_calls, page_calls |-> e.page_calls, fetches |-> e.fetches,
   raised |-> e.raised, labelled |-> labelled, failed |-> failed,
   disabled |-> disabled, saved |-> saved]

\* save_item(item.model_dump(), platform, region) as one transaction
ItemRow(item) == NewRow(item, cp.result.platform, cp.result.region, Today)

SavedAs(item) == IF Conflicts(0, ItemRow(item)) THEN "duplicate" ELSE "inserted"

\* ItemSaved with the rows kept back for one write after the loop
ItemSavedDeferred(item, stored, entry, next) ==
  /\ UNCHANGED <<rows, nextId>>
  /\ cp' = IF stored = "error"
           THEN [pc |-> "raised", idx |-> cp.idx,
                 result |-> [cp.result EXCEPT !.items[cp.idx] = item],
                 trace |-> Append(cp.trace, [entry EXCEPT !.saved = "error"])]
           ELSE [next EXCEPT
                   !.result.items[cp.idx] = item,
                   !.trace = Append(cp.trace, [entry EXCEPT !.saved = SavedAs(item)])]

\* save_item raises out of collect_platform, or it returns and the loop goes on
ItemSaved(item, stored, entry, next) ==
  IF stored = "error"
  THEN /\ cp' = [pc |-> "raised", idx |-> cp.idx,
                 result |-> [cp.result EXCEPT !.items[cp.idx] = item],
                 trace |-> Append(cp.trace, [entry EXCEPT !.saved = "error"])]
       /\ UNCHANGED <<rows, nextId>>
  ELSE /\ rows' = IF Conflicts(0, ItemRow(item)) THEN rows
                  ELSE rows \cup {[id |-> nextId, txn |-> 0] @@ ItemRow(item)}
       /\ nextId' = nextId + 1
       /\ cp' = [next EXCEPT
                   !.result.items[cp.idx] = item,
                   !.trace = Append(cp.trace, [entry EXCEPT !.saved = SavedAs(item)])]

\* the pass of an item once AI enrichment is disabled: keyword labels, save, continue
DisabledPass(item, stored) ==
  ItemSaved([item EXCEPT !.labels = label_item(item.title)], stored,
            Traced(NoCalls, "keyword", FALSE, TRUE, ""),
            Looping(cp.result, cp.idx + 1, cp.ai_failures, TRUE, cp.page_text_cache,
                    cp.page_summary_cache, cp.trace))

\* EnabledPass with an exception of the AI call ending the loop
EnabledPassUncaught(item, e, stored) ==
  ItemSaved(EnrichedItem(item, e), stored,
            Traced(e, IF Failed(e) THEN "keyword" ELSE "ai", Failed(e), FALSE, ""),
            Looping(cp.result,
                    IF e.raised THEN Len(cp.result.items) + 1 ELSE cp.idx + 1,
                    FailuresAfter(cp.ai_failures, e),
                    DisabledAfter(FailuresAfter(cp.ai_failures, e),
                                  cfg.ai_max_failures_before_disable),
                    e.page_text_cache, e.page_summary_cache, cp.trace))

\* the pass of an item through the try block, the save and the threshold
EnabledPass(item, e, stored) ==
  ItemSaved(EnrichedItem(item, e), stored,
            Traced(e, IF Failed(e) THEN "keyword" ELSE "ai", Failed(e), FALSE, ""),
            Looping(cp.result, cp.idx + 1, FailuresAfter(cp.ai_failures, e),
                    DisabledAfter(FailuresAfter(cp.ai_failures, e),
                                  cfg.ai_max_failures_before_disable),
                    e.page_text_cache, e.page_summary_cache, cp.trace))

\* one pass of "for item in result.items" with the AI configured
EnrichItem ==
  /\ cp.pc = "items" /\ cfg.configured
  /\ \E stored \in SaveOutcomes :
       IF cp.ai_disabled
       THEN DisabledPass(cp.result.items[cp.idx], stored)
       ELSE \E fetched \in PageTexts, page \in AIAnswers, title \in AIAnswers :
              EnabledPass(cp.result.items[cp.idx],
                          TitleSummary(PageSummary(cp.result.items[cp.idx],
                                                   cp.page_text_cache,
                                                   cp.page_summary_cache, fetched, page),
                                       title),
                          stored)
  /\ UNCHANGED <<adapter, pool, sv, hist, identVars, txVars, runVars, connVars, aiVars, finStoreVars>>

\* one pass of the loop without AI: keyword labels, then save_item
LabelItem ==
  /\ cp.pc = "items" /\ ~cfg.configured
  /\ \E stored \in SaveOutcomes :
       ItemSaved([cp.result.items[cp.idx] EXCEPT
                   !.labels = label_item(cp.result.items[cp.idx].title)], stored,
                 Traced(NoCalls, "keyword", FALSE, FALSE, ""),
                 Looping(cp.result, cp.idx + 1, 0, FALSE, <<>>, <<>>, cp.trace))
  /\ UNCHANGED <<adapter, pool, sv, hist, identVars, txVars, runVars, connVars, aiVars, finStoreVars>>

NextBatch ==
  \/ collect_platform
  \/ EnrichItem
  \/ LabelItem

SpecBatch == InitBatch /\ [][NextBatch]_vars

\* items j-n+1..j of the batch all ended in an AI failure
FailedRun(j, n) ==
  /\ j >= n
  /\ \A i \in (j - n + 1)..j : cp.trace[i].failed

\* C13: within one platform batch with failure threshold T, once T consecutive
\* items have ended in an AI failure (no labels, or an exception), every later
\* item of the batch is labelled by the keyword labeller alone, with no AI call
\* and no page fetch, and the batch stays disabled
C13_DisabledAfterThreshold ==
  (cp.pc # "idle" /\ cfg.configured) =>
    \A j \in 1..Len(cp.trace) :
      FailedRun(j, cfg.ai_max_failures_before_disable) =>
        /\ \A k \in (j + 1)..Len(cp.trace) :
             /\ cp.trace[k].labelled = "keyword"
             /\ cp.trace[k].ai_calls = 0
             /\ cp.trace[k].fetches = 0
             /\ cp.trace[k].disabled
        /\ cp.pc = "items" => cp.ai_disabled

\* two failures in a row with threshold 2, then an item with a URL, page
\* summaries enabled, handled without a fetch or an AI call
C13_Witness ==
  /\ cp.pc = "returned" /\ cfg.configured /\ cfg.ai_page_summary_enabled
  /\ cfg.ai_max_failures_before_disable = 2
  /\ Len(cp.trace) = 3
  /\ cp.trace[1].failed /\ cp.trace[1].ai_calls > 0
  /\ cp.trace[2].failed /\ cp.trace[2].ai_calls > 0
  /\ Truthy(cp.result.items[3].url)
  /\ cp.result.items[3].url \notin DOMAIN cp.page_summary_cache
  /\ cp.trace[3].disabled /\ cp.trace[3].ai_calls = 0 /\ cp.trace[3].fetches = 0
  /\ cp.result.items[3].labels = label_item(cp.result.items[3].title)

\* C20: a storage error while saving one item of a batch ends that save alone:
\* the call does not end before every remaining item of the batch has been
\* handled too, and a duplicate identity is an outcome of save_item, never an error
C20_StorageErrorSkipsOneItem ==
  cp.pc # "idle" =>
    \A i \in 1..Len(cp.trace) :
      /\ cp.trace[i].saved = "error" =>
           \/ cp.pc = "items"
           \/ Len(cp.trace) = Len(cp.result.items)
      /\ cp.trace[i].saved = "duplicate" => (cp.pc = "raised" => i < Len(cp.trace))

\* safe_collect ran the collector's collect
CollectCalled == cp.pc # "idle" /\ adapter.kind = "result"

\* C22: when the database cannot be resolved or reached, a collection run ends
\* in a fatal error before any partial work: the collector's collect is not
\* called and no page is fetched and no AI call made in that run
C22_UnreachableDatabaseAbortsFirst ==
  (cfg.database_url = "unreachable" /\ cp.pc # "idle") =>
    /\ ~CollectCalled
    /\ \A i \in 1..Len(cp.trace) : cp.trace[i].ai_calls = 0 /\ cp.trace[i].fetches = 0
    /\ cp.pc = "raised"

\* C27: for every registered platform, collect_platform passes region and
\* topic through safe_collect to the collector's collect and returns its
\* CollectionResult; when collect itself succeeds the call does not fail
\* before or instead of invoking collect
C27_RegisteredCollectorIsCalled ==
  (cp.pc # "idle" /\ Registered(adapter) /\ IsNone(adapter.result.error)) =>
    /\ CollectCalled
    /\ cp.pc = "returned" => cp.result.platform = adapter.result.platform
    /\ cp.pc = "returned" => Len(cp.result.items) = Len(adapter.result.items)

\* every pass so far assigned labels to its item and made one save_item call
PassesComplete ==
  \A i \in 1..Len(cp.trace) :
    /\ cp.trace[i].labelled \in {"ai", "keyword"}
    /\ cp.result.items[i].labels # <<>>
    /\ cp.trace[i].saved \in {"inserted", "duplicate", "error"}

\* C24: in an AI-enabled batch an exception or an empty result of the AI call
\* for one item never keeps the next item from being processed: whatever the
\* AI calls give, every item gets labels (from the AI or from the keyword
\* labeller) and one save attempt, the loop goes on to the next item after the
\* save, and nothing but a save_item call that raises ends the batch early
C24_AIFailureNeverStopsBatch ==
  (cfg.configured /\ CollectCalled /\ IsNone(adapter.result.error)) =>
    /\ PassesComplete
    /\ cp.pc = "items" => cp.idx = Len(cp.trace) + 1
    /\ cp.pc = "returned" => Len(cp.trace) = Len(cp.result.items)
    /\ cp.pc = "raised" =>
         /\ cp.trace # <<>>
         /\ cp.trace[Len(cp.trace)].saved = "error"
         /\ \A i \in 1..(Len(cp.trace) - 1) : cp.trace[i].saved # "error"

\* the AI call for item 1 raises, item 2 is enriched by the AI all the same,
\* the AI gives nothing for item 3, and all three are labelled and saved
C24_Witness ==
  /\ cfg.configured /\ cp.pc = "returned" /\ Len(cp.trace) = 3
  /\ cp.trace[1].raised /\ cp.trace[1].labelled = "keyword"
  /\ cp.trace[1].saved = "inserted"
  /\ cp.trace[2].labelled = "ai" /\ cp.trace[2].ai_calls > 0
  /\ cp.trace[2].saved = "duplicate"
  /\ ~cp.trace[3].raised /\ cp.trace[3].failed /\ cp.trace[3].ai_calls > 0
  /\ cp.trace[3].labelled = "keyword" /\ cp.trace[3].saved = "inserted"

\* the passes of the batch so far whose item carries the URL
PassesOfUrl(url) == { i \in 1..Len(cp.trace) : cp.result.items[i].url = url }

UrlsOfBatch == { cp.result.items[i].url : i \in 1..Len(cp.result.items) } \ {None}

\* the page of the URL was fetched by at most one pass
FetchedOnce(url) == Cardinality({ i \in PassesOfUrl(url) : cp.trace[i].fetches > 0 }) <= 1

\* C25: within one platform batch, for every distinct item URL the page is
\* fetched at most once and summarized by the AI from its text at most once,
\* however many items carry the URL and whatever came of the first fetch or
\* summarization (a summary, an empty result or an exception)
C25_OncePerUrl ==
  (cfg.configured /\ CollectCalled /\ IsNone(adapter.result.error)) =>
    \A url \in UrlsOfBatch :
      /\ FetchedOnce(url)
      /\ Cardinality({ i \in PassesOfUrl(url) : cp.trace[i].page_calls > 0 }) <= 1

\* the row collected_items holds for item i of the batch, saved by pass i
StoredRow(i) == [id |-> i, txn |-> 0] @@ ItemRow(cp.result.items[i])

\* the passes whose save_item call inserted a row
InsertedBy == { i \in 1..Len(cp.trace) : cp.trace[i].saved = "inserted" }

\* C28: within one platform's batch the items are enriched and saved in the
\* collector's emission order, one at a time: when pass k+1 has not begun,
\* collected_items holds exactly the rows of items 1..k, numbered in that
\* order, less the items whose identity an earlier item of the batch already
\* had, and no later item has been labelled, so the stored items are a prefix
\* (minus duplicates) of the emitted list at every point the run may stop at
C28_SavedInEmissionOrder ==
  (CollectCalled /\ IsNone(adapter.result.error)) =>
    /\ rows = { StoredRow(i) : i \in InsertedBy }
    /\ \A i \in 1..Len(cp.trace) :
         /\ cp.trace[i].saved = "duplicate" =>
              \E j \in InsertedBy :
                j < i /\ UniqueKey(StoredRow(j)) = UniqueKey(StoredRow(i))
         /\ cp.trace[i].saved = "error" => i = Len(cp.trace)
    /\ \A i \in (Len(cp.trace) + 1)..Len(cp.result.items) :
         cp.result.items[i] = adapter.result.items[i]

\* two items with different identities are stored, in order, while the third
\* item of the batch has not been touched yet
C28_Witness ==
  /\ cp.pc = "items" /\ cp.idx = 3 /\ Len(cp.result.items) = 3
  /\ cfg.configured /\ cp.trace[1].ai_calls > 0 /\ cp.trace[2].ai_calls > 0
  /\ rows = {StoredRow(1), StoredRow(2)}
  /\ cp.result.items[3].labels = <<>>

(***************************************************************************)
(* Table financial_reports: merge by ticker, replace-all, re-evaluation    *)
(***************************************************************************)
MaxFinOps == 3

\* float values are written as text; inf and nan are the ones json cannot carry
isinf(x) == x \in {<<"inf">>, <<"-inf">>}

isnan(x) == x = <<"nan">>

\* _sanitize_floats on one value
SanitizedFloat(x) == IF isinf(x) \/ isnan(x) THEN None ELSE x

\* _sanitize_floats on a report dict: revenue is its float field here
_sanitize_floats(report) == [report EXCEPT !.revenue = SanitizedFloat(@)]

FinancialReport(ticker, company_name, regions, revenue) ==
  [ticker |-> ticker, company_name |-> company_name, regions |-> regions,
   revenue |-> revenue, report_period |-> None, summary |-> None,
   health_score |-> NoneInt, potential_score |-> NoneInt, error |-> None]

TickerX == <<"X">>

TickerY == <<"Y">>

FinancialReports ==
  { FinancialReport(TickerX, <<"c", "1">>, <<"us">>, <<"1.0">>),
    FinancialReport(TickerX, <<"c", "2">>, <<"gl">>, <<"inf">>),
    FinancialReport(TickerX, <<"c", "1">>, <<"gl", "gl">>, <<"2.0">>),
    FinancialReport(TickerY, <<"c", "1">>, <<"us">>, <<"1.0">>),
    FinancialReport(<<>>, <<"c", "1">>, <<"us">>, <<"1.0">>) }

\* the lists save_financial_reports is called with
ReportLists ==
  { <<r>> : r \in FinancialReports }
  \cup { <<FinancialReport(<<>>, <<"c", "1">>, <<"us">>, <<"1.0">>),
           FinancialReport(TickerX, <<"c", "1">>, <<"us">>, <<"1.0">>)>>,
         <<FinancialReport(TickerX, <<"c", "1">>, <<"us">>, <<"1.0">>),
           FinancialReport(TickerY, <<"c", "1">>, <<"us">>, <<"1.0">>)>> }

\* the dict lists save_financial_reports_raw is called with
RawLists ==
  { <<>>,
    <<FinancialReport(TickerY, <<"c", "2">>, <<"gl">>, <<"nan">>)>>,
    <<FinancialReport(<<>>, <<"c", "1">>, <<"us">>, <<"1.0">>),
      FinancialReport(TickerX, <<"c", "2">>, <<>>, <<"2.0">>)>>,
    <<FinancialReport(TickerY, <<"c", "1">>, <<"us">>, <<"1.0">>),
      FinancialReport(TickerY, <<"c", "2">>, <<"gl">>, <<"1.0">>)>> }

\* what analyze_financial_report gives evaluate_financial_reports
EvalOutcomes ==
  { [kind |-> "tuple", summary |-> <<"s">>, health_score |-> Some(5),
     potential_score |-> Some(6)],
    [kind |-> "None"], [kind |-> "raised"] }

InitFinStore ==
  /\ IdleIdentity
  /\ IdleStore
  /\ IdleBatch
  /\ IdleConn
  /\ IdleRun
  /\ IdleTx
  /\ cfg \in [command : {"financial_reports"}, configured : BOOLEAN]
  /\ feed = [items |-> <<>>]
  /\ vp = [pc |-> "idle"]
  /\ collaborator = {}
  /\ daily_verdicts = {}
  /\ nextVid = 1
  /\ vcall = [outcome |-> "nothing"]
  /\ vdone = [any |-> FALSE]
  /\ vpassed = [n |-> 0, ran |-> NoPasses]
  /\ fin = [pc |-> "idle"]
  /\ fcall = [outcome |-> "nothing"]
  /\ financial_reports = {}
  /\ ev = [pc |-> "idle"]
  /\ flog = <<>>

Members(seq) == { seq[i] : i \in 1..Len(seq) }

\* the arrays that list the members of S once each, in any order
Orders(S) == { o \in [1..Cardinality(S) -> S] : Members(o) = S }

\* regions = EXCLUDED.regions: the stored regions are replaced
RegionsReplaced(old, new) == {new}

\* ARRAY(SELECT DISTINCT UNNEST(financial_reports.regions || EXCLUDED.regions)):
\* the order of the result is not specified
RegionsMerged(old, new) == Orders(Members(old) \cup Members(new))

HasTicker(table, ticker) == \E r \in table : r.ticker = ticker

RowOfTicker(table, ticker) == CHOOSE r \in table : r.ticker = ticker

\* INSERT ... ON CONFLICT (ticker) DO UPDATE of save_financial_reports for one
\* report: the tables it may leave
SaveOne(table, report) ==
  IF ~Truthy(report.ticker) THEN {table}
  ELSE IF HasTicker(table, report.ticker)
       THEN { (table \ {RowOfTicker(table, report.ticker)})
              \cup {[report EXCEPT !.regions = regions]} :
                regions \in RegionsMerged(RowOfTicker(table, report.ticker).regions,
                                          report.regions) }
       ELSE {table \cup {report}}

\* "for report in reports" inside one transaction
RECURSIVE SaveAll(_, _)
SaveAll(tables, reports) ==
  IF reports = <<>> THEN tables
  ELSE SaveAll(UNION { SaveOne(t, _sanitize_floats(Head(reports))) : t \in tables },
               Tail(reports))

\* a write to the table, as the log keeps it
Written(op, reports, before, after) ==
  [op |-> op, reports |-> reports, before |-> before, after |-> after]

save_financial_reports ==
  /\ cfg.command = "financial_reports"
  /\ Len(flog) < MaxFinOps
  /\ \E reports \in ReportLists :
       \E after \in SaveAll({financial_reports}, reports) :
         /\ financial_reports' = after
         /\ flog' = Append(flog, Written("save_financial_reports", reports,
                                         financial_reports, after))
  /\ UNCHANGED <<ev, identVars, txVars, runVars, connVars, storeVars, aiVars, batchVars>>

\* two dicts of the list carry the same ticker: the second plain INSERT
\* violates PRIMARY KEY (ticker) and raises
DuplicateTickers(reports) ==
  \E i, j \in 1..Len(reports) :
    i < j /\ Truthy(reports[i].ticker) /\ reports[i].ticker = reports[j].ticker

\* RawRows without the TRUNCATE: the stored tickers the list does not name stay
RawRowsKept(reports) ==
  { _sanitize_floats(reports[i]) : i \in { k \in 1..Len(reports) : Truthy(reports[k].ticker) } }
  \cup { r \in financial_reports : \A i \in 1..Len(reports) : reports[i].ticker # r.ticker }

\* TRUNCATE, then a plain INSERT of every dict that has a ticker
RECURSIVE RawRows(_)
RawRows(reports) ==
  IF reports = <<>> THEN {}
  ELSE (IF Truthy(Head(reports).ticker) THEN {_sanitize_floats(Head(reports))} ELSE {})
       \cup RawRows(Tail(reports))

\* the table once the transaction has committed, or as it was when an INSERT
\* raised and nothing was committed
RawSaved(table, reports) == IF DuplicateTickers(reports) THEN table ELSE RawRows(reports)

save_financial_reports_raw ==
  /\ cfg.command = "financial_reports"
  /\ Len(flog) < MaxFinOps
  /\ \E reports \in RawLists :
       /\ financial_reports' = RawSaved(financial_reports, reports)
       /\ flog' = Append(flog, Written("save_financial_reports_raw", reports,
                                       financial_reports,
                                       RawSaved(financial_reports, reports)))
  /\ UNCHANGED <<ev, identVars, txVars, runVars, connVars, storeVars, aiVars, batchVars>>

\* INSERT ... ON CONFLICT (ticker) DO UPDATE of upsert_financial_report
upsert_financial_report(table, report) ==
  IF ~Truthy(report.ticker) THEN table
  ELSE { r \in table : r.ticker # report.ticker } \cup {_sanitize_floats(report)}

\* ORDER BY ticker DESC, the default of load_financial_reports
TickersDescending == <<TickerY, TickerX>>

\* load_financial_reports(): the rows without an error, as dicts
load_financial_reports(table) ==
  [i \in 1..Len(SelectSeq(TickersDescending,
                          LAMBDA t : \E r \in table : r.ticker = t /\ ~Truthy(r.error))) |->
     RowOfTicker(table, SelectSeq(TickersDescending,
                                  LAMBDA t : \E r \in table :
                                               r.ticker = t /\ ~Truthy(r.error))[i])]

_has_meaningful_data(data) == ~IsNone(data.revenue)

\* the reports evaluate_financial_reports will visit
Targets(reports, only_missing) ==
  SelectSeq(reports, LAMBDA r : /\ ~Truthy(r.error) /\ _has_meaningful_data(r)
                                /\ (only_missing => r.health_score = NoneInt))

\* evaluate_financial_reports up to its loop: the reports are loaded once
evaluate_financial_reports ==
  /\ cfg.command = "financial_reports" /\ ev.pc = "idle"
  /\ Len(flog) < MaxFinOps
  /\ \E only_missing \in BOOLEAN :
       \E targets \in {Targets(load_financial_reports(financial_reports), only_missing)} :
         ev' = IF ~cfg.configured \/ targets = <<>>
               THEN [pc |-> "idle", returned |-> 0]
               ELSE [pc |-> "evaluating", targets |-> targets, idx |-> 1, evaluated |-> 0]
  /\ UNCHANGED <<financial_reports, flog, identVars, txVars, runVars, connVars, storeVars, aiVars, batchVars>>

\* the loop has handled a report
EvaluatedOne(evaluated) ==
  IF ev.idx = Len(ev.targets) THEN [pc |-> "idle", returned |-> evaluated]
  ELSE [ev EXCEPT !.idx = @ + 1, !.evaluated = evaluated]

\* by_ticker[ticker] with the summary and the scores set
Evaluation(report, outcome) ==
  [report EXCEPT !.summary = outcome.summary, !.health_score = outcome.health_score,
                 !.potential_score = outcome.potential_score]

\* one pass of "for idx, report in enumerate(targets, 1)": the AI call, and
\* the upsert of the loaded dict when a summary came back
EvaluateReport ==
  /\ ev.pc = "evaluating"
  /\ \E outcome \in EvalOutcomes :
       IF outcome.kind = "tuple"
       THEN \E after \in {upsert_financial_report(financial_reports,
                            Evaluation(ev.targets[ev.idx], outcome))} :
              /\ financial_reports' = after
              /\ flog' = Append(flog, Written("upsert_financial_report",
                                  <<Evaluation(ev.targets[ev.idx], outcome)>>,
                                  financial_reports, after))
              /\ ev' = EvaluatedOne(ev.evaluated + 1)
       ELSE /\ ev' = EvaluatedOne(ev.evaluated)
            /\ UNCHANGED <<financial_reports, flog>>
  /\ UNCHANGED <<identVars, txVars, runVars, connVars, storeVars, aiVars, batchVars>>

NextFinStore ==
  \/ save_financial_reports
  \/ save_financial_reports_raw
  \/ evaluate_financial_reports
  \/ EvaluateReport

SpecFinStore == InitFinStore /\ [][NextFinStore]_vars

\* the reports of a save that have a ticker
WithTicker(reports) == SelectSeq(reports, LAMBDA r : Truthy(r.ticker))

\* write i of the log is a save_financial_reports of one report of this ticker
SavesTicker(i, ticker) ==
  /\ flog[i].op = "save_financial_reports"
  /\ Len(WithTicker(flog[i].reports)) = 1
  /\ WithTicker(flog[i].reports)[1].ticker = ticker

RegionsBefore(table, ticker) ==
  IF HasTicker(table, ticker) THEN Members(RowOfTicker(table, ticker).regions) ELSE {}

\* C14: two saves of a ticker in a row, with regions A and then B, leave one
\* row of the ticker; its regions are what was stored before, A and B, each
\* once, and every other field is the second save's
C14_MergeByTicker ==
  \A i \in 2..Len(flog) : \A ticker \in {TickerX, TickerY} :
    (SavesTicker(i - 1, ticker) /\ SavesTicker(i, ticker)) =>
      /\ Cardinality({ r \in flog[i].after : r.ticker = ticker }) = 1
      /\ \E row \in {RowOfTicker(flog[i].after, ticker)} :
           /\ Members(row.regions)
                = RegionsBefore(flog[i - 1].before, ticker)
                  \cup Members(WithTicker(flog[i - 1].reports)[1].regions)
                  \cup Members(WithTicker(flog[i].reports)[1].regions)
           /\ Len(row.regions) = Cardinality(Members(row.regions))
           /\ [row EXCEPT !.regions = <<>>]
                = [_sanitize_floats(WithTicker(flog[i].reports)[1]) EXCEPT !.regions = <<>>]

\* X is new, saved with regions [us] and then with [gl], with other scalars
C14_Witness ==
  /\ Len(flog) >= 2
  /\ SavesTicker(1, TickerX) /\ SavesTicker(2, TickerX)
  /\ WithTicker(flog[1].reports)[1].regions = <<"us">>
  /\ WithTicker(flog[2].reports)[1].regions = <<"gl">>
  /\ WithTicker(flog[2].reports)[1].company_name
       # WithTicker(flog[1].reports)[1].company_name
  /\ Members(RowOfTicker(flog[2].after, TickerX).regions) = {"us", "gl"}
  /\ RowOfTicker(flog[2].after, TickerX).company_name = <<"c", "2">>

\* C15: no write other than save_financial_reports_raw takes a region away
\* from a ticker, however saves and re-evaluations interleave
C15_RegionsNeverShrink ==
  \A i \in 1..Len(flog) :
    flog[i].op # "save_financial_reports_raw" =>
      \A r \in flog[i].before :
        /\ HasTicker(flog[i].after, r.ticker)
        /\ Members(r.regions) \subseteq Members(RowOfTicker(flog[i].after, r.ticker).regions)

\* the dicts of a list that have a ticker
RawWithTicker(reports) == { k \in 1..Len(reports) : Truthy(reports[k].ticker) }

\* the table holds the reports of the list that have a ticker, each with the
\* regions and the company name the list gives, and no other row
HoldsExactly(table, reports) ==
  /\ \A k \in RawWithTicker(reports) :
       \E r \in table : /\ r.ticker = reports[k].ticker
                        /\ r.regions = reports[k].regions
                        /\ r.company_name = reports[k].company_name
  /\ \A r \in table :
       \E k \in RawWithTicker(reports) : /\ r.ticker = reports[k].ticker
                                         /\ r.regions = reports[k].regions
                                         /\ r.company_name = reports[k].company_name

RawCalls == { i \in 1..Len(flog) : flog[i].op = "save_financial_reports_raw" }

CollectionFields(r) ==
  [r EXCEPT !.summary = None, !.health_score = NoneInt, !.potential_score = NoneInt]

\* write k of the log is the write-back of an evaluated report
WriteBacks == { k \in 1..Len(flog) : flog[k].op = "upsert_financial_report" }

\* C32: the write-back of an evaluated report changes nothing but the summary,
\* health_score and potential_score of that ticker: the table has the same
\* tickers after it as before it, every other ticker's row is the same, and the
\* other fields of the evaluated ticker are what the table held just before
\* the write-back, also when a save came between the pass's load and it
C32_EvaluationChangesOnlyAIFields ==
  \A k \in WriteBacks : \A ticker \in {TickerX, TickerY} :
    /\ HasTicker(flog[k].after, ticker) <=> HasTicker(flog[k].before, ticker)
    /\ HasTicker(flog[k].before, ticker) =>
         IF ticker = flog[k].reports[1].ticker
         THEN CollectionFields(RowOfTicker(flog[k].after, ticker))
                = CollectionFields(RowOfTicker(flog[k].before, ticker))
         ELSE RowOfTicker(flog[k].after, ticker) = RowOfTicker(flog[k].before, ticker)

\* the write-back of a report whose row was not written since the pass loaded
\* it does change only the AI fields
FreshWriteBackChangesOnlyAIFields ==
  \A k \in WriteBacks :
    (/\ HasTicker(flog[k].before, flog[k].reports[1].ticker)
     /\ CollectionFields(RowOfTicker(flog[k].before, flog[k].reports[1].ticker))
          = CollectionFields(flog[k].reports[1]))
      => /\ flog[k].after = (flog[k].before \ {RowOfTicker(flog[k].before, flog[k].reports[1].ticker)})
                             \cup {RowOfTicker(flog[k].after, flog[k].reports[1].ticker)}
         /\ CollectionFields(RowOfTicker(flog[k].after, flog[k].reports[1].ticker))
              = CollectionFields(flog[k].reports[1])

(***************************************************************************)
(* Table daily_verdicts under any sequence of save_daily_verdict calls     *)
(***************************************************************************)
MaxVerdictSaves == 3

\* a DailyVerdict with its generated_at
VerdictAt(scope, date, summary, tuple, item_count, generated_at) ==
  DailyVerdict(scope, date, summary, tuple, item_count)
  @@ [generated_at |-> generated_at]

SomeTuple ==
  [summary |-> <<"s", "2">>, global_political_score |-> Some(10),
   global_economic_score |-> Some(20), domestic_political_score |-> Some(30),
   domestic_economic_score |-> Some(40)]

\* the verdicts save_daily_verdict is called with
VerdictPool ==
  UNION { { VerdictAt(scope, date, <<"s", "1">>, NoneTuple, 1, 1),
            VerdictAt(scope, date, <<"s", "2">>, SomeTuple, 2, 2) } :
          scope \in {Scope(None, None, <<>>), Scope(<<"p1">>, None, <<>>)},
          date \in {"d1", "d2"} }

InitVerdictStore ==
  /\ IdleIdentity
  /\ IdleStore
  /\ IdleBatch
  /\ IdleFinStore
  /\ IdleConn
  /\ IdleRun
  /\ IdleTx
  /\ cfg = [command |-> "daily_verdicts", configured |-> FALSE]
  /\ feed = [items |-> <<>>]
  /\ vp = [pc |-> "idle"]
  /\ collaborator = {}
  /\ daily_verdicts = {}
  /\ nextVid = 1
  /\ vcall = [outcome |-> "nothing"]
  /\ vdone = [any |-> FALSE]
  /\ vpassed = [n |-> 0, ran |-> NoPasses]
  /\ fin = [pc |-> "idle"]
  /\ fcall = [outcome |-> "nothing"]

\* a call of save_daily_verdict(verdict)
SaveVerdict ==
  /\ cfg.command = "daily_verdicts"
  /\ nextVid <= MaxVerdictSaves
  /\ \E verdict \in VerdictPool :
       /\ daily_verdicts' = save_daily_verdict(daily_verdicts, verdict, nextVid)
       /\ vdone' = [any |-> TRUE, row |-> verdict, before |-> daily_verdicts]
  /\ nextVid' = nextVid + 1
  /\ UNCHANGED <<cfg, feed, vp, collaborator, vcall, vpassed, fin, fcall>>
  /\ UNCHANGED <<identVars, txVars, runVars, connVars, storeVars, batchVars, finStoreVars>>

NextVerdictStore == SaveVerdict

SpecVerdictStore == InitVerdictStore /\ [][NextVerdictStore]_vars

VerdictKey(r) == <<r.date, r.scope_key>>

\* a row without its id
VerdictFields(r) == [f \in DOMAIN r \ {"id"} |-> r[f]]

\* C16: after any sequence of save_daily_verdict calls no two rows share
\* (date, scope_key); the row of the key saved last holds every field of that
\* save; saving that verdict once more leaves the table as it is; and the rows
\* of the other keys are the ones that were there before the save
C16_UpsertLastWriteWins ==
  /\ \A r, q \in daily_verdicts : VerdictKey(r) = VerdictKey(q) => r = q
  /\ vdone.any =>
       /\ \E r \in daily_verdicts : VerdictFields(r) = vdone.row
       /\ save_daily_verdict(daily_verdicts, vdone.row, nextVid) = daily_verdicts
       /\ { r \in daily_verdicts : VerdictKey(r) # VerdictKey(vdone.row) }
            = { r \in vdone.before : VerdictKey(r) # VerdictKey(vdone.row) }

\* a save over a row of the same key with other fields, beside a row of another key
C16_Witness ==
  /\ vdone.any
  /\ \E r \in vdone.before :
       VerdictKey(r) = VerdictKey(vdone.row) /\ VerdictFields(r) # vdone.row
  /\ \E r \in vdone.before : VerdictKey(r) # VerdictKey(vdone.row)
  /\ Cardinality(daily_verdicts) = 2

(***************************************************************************)
(* collect_all: the gathered tasks, the final list and the scopes          *)
(***************************************************************************)
MaxPlatforms == 2

ScopeItem(title, platform, region) ==
  [title |-> <<title>>, platform |-> platform, region |-> region]

\* item lists a platform may return: platform and region, the same two with
\* blanks around them, a platform alone, a region alone
ItemLists ==
  { <<>>,
    <<ScopeItem("a", <<"p1">>, <<"r1">>)>>,
    <<ScopeItem("a", <<"p1">>, <<"r1">>), ScopeItem("d", <<" ", "p1">>, <<"r1", " ">>)>>,
    <<ScopeItem("b", <<"p1">>, None)>>,
    <<ScopeItem("c", <<>>, <<"r1">>)>>,
    <<ScopeItem("a", <<"p1">>, <<"r1">>), ScopeItem("b", <<"p1">>, None),
      ScopeItem("c", <<>>, <<"r1">>)>> }

\* what the task of one platform may give
TaskOutcomes(platform) ==
  { TaskReturned([platform |-> platform, region |-> None, items |-> items,
                  error |-> None]) : items \in ItemLists }
  \cup { TaskReturned([platform |-> platform, region |-> None,
                       items |-> <<ScopeItem("v", <<"p2">>, <<"r1">>)>>,
                       error |-> error]) : error \in {<<"e">>, <<>>} }
  \cup { TaskRaised(<<"x">>), TaskRaised(<<>>) }

RequestedPlatforms ==
  UNION { [1..n -> {<<"p1">>, <<"p2">>}] : n \in 1..MaxPlatforms }

\* what gather may hold for the platforms t, task by task
TaskResults(t) ==
  { r \in [1..Len(t) -> TaskOutcomes(<<"p1">>) \cup TaskOutcomes(<<"p2">>)] :
      \A i \in 1..Len(t) : r[i] \in TaskOutcomes(t[i]) }

CollectFeeds ==
  UNION { { [items |-> <<>>, date |-> Today, target_platforms |-> t, results |-> r] :
              r \in TaskResults(t) } : t \in RequestedPlatforms }

InitCollectAll ==
  /\ IdleIdentity
  /\ IdleStore
  /\ IdleBatch
  /\ IdleFinStore
  /\ IdleConn
  /\ IdleRun
  /\ IdleTx
  /\ cfg \in [command : {"verdicts"}, configured : BOOLEAN,
              ai_max_verdict_items : {MaxVerdictItems}, ai_json_number_retry : {1}]
  /\ feed \in CollectFeeds
  /\ vp = [pc |-> "idle"]
  /\ collaborator = {[transport |-> "timeout", data |-> [choices |-> <<>>]]}
  /\ daily_verdicts = {}
  /\ nextVid = 1
  /\ vcall = [outcome |-> "nothing"]
  /\ vdone = [any |-> FALSE]
  /\ vpassed = [n |-> 0, ran |-> NoPasses]
  /\ fin = [pc |-> "idle"]
  /\ fcall = [outcome |-> "nothing"]

NextCollectAll ==
  \/ collect_all
  \/ VerdictApiReturn

SpecCollectAll == InitCollectAll /\ [][NextCollectAll]_vars

\* collect_all has returned
Collected == vpassed.n > 0 /\ vpassed.entry = "collect_all"

\* the items of the returned results that carry no error, in order
RECURSIVE ItemsWithoutError(_)
ItemsWithoutError(results) ==
  IF results = <<>> THEN <<>>
  ELSE (IF Head(results).error = None THEN Head(results).items ELSE <<>>)
       \o ItemsWithoutError(Tail(results))

\* the scopes of the pass that hold the item
InScopes(item) ==
  { i \in 1..Len(vpassed.scopes) : item \in Members(vpassed.scopes[i].items) }

PlatformOf(item) == strip(IF item.platform = None THEN <<>> ELSE item.platform)

RegionOf(item) == strip(IF item.region = None THEN <<>> ELSE item.region)

\* the scope keys the item belongs under
KeysOf(item) ==
  {<<"all">>}
  \cup (IF PlatformOf(item) # <<>> THEN {<<"platform:">> \o PlatformOf(item)} ELSE {})
  \cup (IF RegionOf(item) # <<>> THEN {<<"region:">> \o RegionOf(item)} ELSE {})
  \cup (IF PlatformOf(item) # <<>> /\ RegionOf(item) # <<>>
        THEN {<<"platform:">> \o PlatformOf(item) \o <<"|region:">> \o RegionOf(item)}
        ELSE {})

HowManyScopes(item) ==
  IF PlatformOf(item) # <<>> /\ RegionOf(item) # <<>> THEN 4
  ELSE IF PlatformOf(item) # <<>> \/ RegionOf(item) # <<>> THEN 2
  ELSE 1

\* C17: an item with platform P and region R is in exactly the four scopes all,
\* platform:P, region:R and platform:P|region:R, an item with only one of the
\* two in exactly two; items that all share P and R give exactly four scopes
\* that each hold all of them; and no scope of the map is empty
C17_ScopesOfEveryItem ==
  Collected =>
    /\ \A item \in Members(ItemsWithoutError(vpassed.returned)) :
         /\ { vpassed.scopes[i].key : i \in InScopes(item) } = KeysOf(item)
         /\ Cardinality(InScopes(item)) = HowManyScopes(item)
    /\ ( /\ ItemsWithoutError(vpassed.returned) # <<>>
         /\ \A item \in Members(ItemsWithoutError(vpassed.returned)) :
              /\ HowManyScopes(item) = 4
              /\ KeysOf(item) = KeysOf(ItemsWithoutError(vpassed.returned)[1]) )
       => /\ Len(vpassed.scopes) = 4
          /\ \A i \in 1..4 :
               vpassed.scopes[i].items = ItemsWithoutError(vpassed.returned)
    /\ \A i \in 1..Len(vpassed.scopes) : vpassed.scopes[i].items # <<>>

\* two items that share platform and region, one of them written with blanks
C17_Witness ==
  /\ Collected
  /\ Len(ItemsWithoutError(vpassed.returned)) = 2
  /\ ItemsWithoutError(vpassed.returned)[1] # ItemsWithoutError(vpassed.returned)[2]
  /\ Len(vpassed.scopes) = 4
  /\ \A i \in 1..4 : Len(vpassed.scopes[i].items) = 2

\* C18: the items of a result that carries an error are in no scope, and when
\* no result without error has an item the scope map is empty
C18_FailedResultsLeftOut ==
  Collected =>
    /\ \A k \in 1..Len(vpassed.returned) :
         vpassed.returned[k].error # None =>
           \A item \in Members(vpassed.returned[k].items) : InScopes(item) = {}
    /\ \A i \in 1..Len(vpassed.scopes) :
         Members(vpassed.scopes[i].items)
           \subseteq Members(ItemsWithoutError(vpassed.returned))
    /\ ItemsWithoutError(vpassed.returned) = <<>> => vpassed.scopes = <<>>

\* a failed result with an item beside a result whose items made scopes
C18_Witness ==
  /\ Collected
  /\ \E k \in 1..Len(vpassed.returned) :
       vpassed.returned[k].error # None /\ vpassed.returned[k].items # <<>>
  /\ vpassed.scopes # <<>>

\* C19: collect_all returns one CollectionResult per requested platform, in
\* the order of the request; for a platform whose task raised it is a result
\* of that platform with the error set and no items, and for every other
\* platform it is the result its task returned
C19_OneResultPerPlatform ==
  Collected =>
    /\ Len(vpassed.returned) = Len(feed.target_platforms)
    /\ \A i \in 1..Len(feed.target_platforms) :
         IF feed.results[i].raised
         THEN /\ vpassed.returned[i].platform = feed.target_platforms[i]
              /\ vpassed.returned[i].error # None
              /\ vpassed.returned[i].items = <<>>
         ELSE vpassed.returned[i] = feed.results[i].result

\* the first platform raised, the second returned its items
C19_Witness ==
  /\ Collected
  /\ Len(feed.target_platforms) = 2
  /\ feed.results[1].raised
  /\ vpassed.returned[1].error = <<"x">>
  /\ ~feed.results[2].raised
  /\ vpassed.returned[2].error = None /\ vpassed.returned[2].items # <<>>

(***************************************************************************)
(* The connection pool of the store (utils/storage.py, _SimpleConnectionPool) *)
(***************************************************************************)

\* _POOL_MAX_CONN, scaled down; the threads that use the store at once are
\* one more than the pool allows, and psycopg.connect is called at most
\* MaxConnects times in a run
MaxConn == 2
NumThreads == MaxConn + 1
MaxConnects == 5

Threads == 1..NumThreads

NoConn == <<>>

InitPool ==
  /\ IdleIdentity
  /\ IdleStore
  /\ IdleAI
  /\ IdleBatch
  /\ IdleFinStore
  /\ IdleRun
  /\ IdleTx
  /\ connPool = [_pool |-> <<>>, _size |-> 0]
  /\ held = [t \in Threads |-> NoConn]
  /\ connections = {}
  /\ nextConn = 0

\* psycopg.connect(self._dsn): a new open connection
Connected(t, size) ==
  /\ nextConn < MaxConnects
  /\ nextConn' = nextConn + 1
  /\ connections' = connections \cup {nextConn + 1}
  /\ held' = [held EXCEPT ![t] = <<nextConn + 1>>]
  /\ connPool' = [connPool EXCEPT !._size = size]

\* _SimpleConnectionPool.getconn, called by _Connection.__init__ of thread t.
\* The part under the lock is one step; the connect after the lock is released
\* touches nothing the pool object holds, so it is taken in the same step.
getconn(t) ==
  /\ held[t] = NoConn
  /\ IF connPool._pool # <<>>
       THEN /\ held' = [held EXCEPT ![t] = <<Head(connPool._pool)>>]
            /\ connPool' = [connPool EXCEPT !._pool = Tail(@)]
            /\ UNCHANGED <<connections, nextConn>>
       ELSE IF connPool._size < MaxConn
              THEN Connected(t, connPool._size + 1)
              ELSE Connected(t, connPool._size)
  /\ UNCHANGED <<identVars, runVars, storeVars, aiVars, batchVars, finStoreVars>>

\* _SimpleConnectionPool.putconn, called by _Connection.__exit__ of thread t
putconn(t) ==
  /\ held[t] # NoConn
  /\ held' = [held EXCEPT ![t] = NoConn]
  /\ IF Len(connPool._pool) < MaxConn
       THEN /\ connPool' = [connPool EXCEPT !._pool = Append(@, held[t][1])]
            /\ UNCHANGED connections
       ELSE /\ connections' = connections \ {held[t][1]}
            /\ connPool' = [connPool EXCEPT !._size = @ - 1]
  /\ UNCHANGED nextConn
  /\ UNCHANGED <<identVars, runVars, storeVars, aiVars, batchVars, finStoreVars>>

PoolMembers(q) == {q[i] : i \in 1..Len(q)}

\* _SimpleConnectionPool.closeall
closeall ==
  /\ connPool._pool # <<>> \/ connPool._size # 0
  /\ connections' = connections \ PoolMembers(connPool._pool)
  /\ connPool' = [_pool |-> <<>>, _size |-> 0]
  /\ UNCHANGED <<held, nextConn>>
  /\ UNCHANGED <<identVars, txVars, runVars, storeVars, aiVars, batchVars, finStoreVars>>

NextPool ==
  \/ \E t \in Threads : getconn(t) /\ UNCHANGED txVars
  \/ \E t \in Threads : putconn(t) /\ UNCHANGED txVars
  \/ closeall

SpecPool == InitPool /\ [][NextPool]_vars

HandedOut == {t \in Threads : held[t] # NoConn}

\* C21: in every reachable state the connections handed out to threads plus
\* the connections idle in the pool are at most maxconn.
C21_PoolCapsConnections ==
  Cardinality(HandedOut) + Len(connPool._pool) <= MaxConn

\* the pool under getconn and putconn calls alone
NextGetPut ==
  \/ \E t \in Threads : getconn(t) /\ UNCHANGED txVars
  \/ \E t \in Threads : putconn(t) /\ UNCHANGED txVars

SpecGetPut == InitPool /\ [][NextGetPut]_vars

\* C35: under any interleaving of getconn and putconn calls _size is the
\* number of connections the pool has opened and not closed, and it stays
\* within 0 and maxconn
C35_SizeCountsOpenConnections ==
  /\ connPool._size = Cardinality(connections)
  /\ 0 <= connPool._size /\ connPool._size <= MaxConn

\* the bounds of _size alone
SizeWithinBounds == 0 <= connPool._size /\ connPool._size <= MaxConn

\* while no getconn has found the pool exhausted, _size does count the open
\* connections
SizeCountsUntilExhausted ==
  nextConn <= MaxConn => connPool._size = Cardinality(connections)

(***************************************************************************)
(* collect_all with its tasks: two collect_platform calls under gather,    *)
(* then the final list, the scopes and the verdicts                        *)
(***************************************************************************)
MaxRunBatch == 2

PlatformOne == <<"p", "1">>

PlatformTwo == <<"p", "2">>

\* what a platform's collector emits: n items of its own
RunBatch(platform, n) ==
  [i \in 1..n |-> [TrendingItem(None, <<"t">>) EXCEPT !.platform = platform]]

\* the collectors collect_all may get for a platform
RunAdapters(platform, longest) ==
  { [kind |-> "raise", result |-> CollectionResult(platform, <<>>, None)],
    [kind |-> "result", result |-> CollectionResult(platform, <<>>, <<"e">>)] }
  \cup { [kind |-> "result", result |-> CollectionResult(platform, RunBatch(platform, n), None)] :
           n \in 0..longest }

\* tasks = [collect_platform(p, ...) for p in target_platforms]: both
\* coroutines are created, none has run yet
InitRun ==
  /\ IdleIdentity
  /\ IdleStore
  /\ IdleFinStore
  /\ IdleConn
  /\ IdleTx
  /\ cfg \in [command : {"collect_all"}, configured : BOOLEAN,
              ai_max_failures_before_disable : 0..MaxFailures,
              ai_page_summary_enabled : {FALSE},
              database_url : {"reachable"},
              ai_max_verdict_items : {MaxVerdictItems}, ai_json_number_retry : {1}]
  /\ feed = [items |-> <<>>, date |-> Today,
             target_platforms |-> <<PlatformOne, PlatformTwo>>, gathered |-> FALSE]
  /\ vp = [pc |-> "idle"]
  /\ collaborator = {[transport |-> "timeout", data |-> [choices |-> <<>>]]}
  /\ daily_verdicts = {}
  /\ nextVid = 1
  /\ vcall = [outcome |-> "nothing"]
  /\ vdone = [any |-> FALSE]
  /\ vpassed = [n |-> 0, ran |-> NoPasses]
  /\ fin = [pc |-> "idle"]
  /\ fcall = [outcome |-> "nothing"]
  /\ adapter \in RunAdapters(PlatformOne, MaxRunBatch)
  /\ cp = [pc |-> "idle"]
  /\ other \in { [task |-> 2, adapter |-> a, cp |-> [pc |-> "idle"]] :
                   a \in RunAdapters(PlatformTwo, MaxRunBatch) }

\* a collect_platform call has returned or raised
Finished(call) == call.pc \in {"returned", "raised"}

\* the event loop suspends the running task at one of its awaits and resumes
\* the other one, which keeps its own collector and its own local variables
Switch ==
  /\ cfg.command = "collect_all" /\ ~feed.gathered
  /\ ~Finished(other.cp)
  /\ cp' = other.cp
  /\ adapter' = other.adapter
  /\ other' = [task |-> IF other.task = 1 THEN 2 ELSE 1, adapter |-> adapter, cp |-> cp]
  /\ UNCHANGED <<identVars, txVars, connVars, storeVars, aiVars, finStoreVars>>

\* gather giving up the wait when the first task is through
GatherReturnsEarly(running, suspended) == Finished(running) \/ Finished(suspended)

\* await asyncio.gather(*tasks, return_exceptions=True) returns once every
\* task has returned or raised
GatherReturns(running, suspended) == Finished(running) /\ Finished(suspended)

\* what gather holds for a task
TaskResult(platform, call) ==
  IF call.pc = "returned" THEN TaskReturned(call.result)
  ELSE IF call.pc = "raised" THEN TaskRaised(<<"x">>)
  ELSE TaskReturned(CollectionResult(platform, <<>>, None))

\* the results in the order of target_platforms
Gathered ==
  IF other.task = 2
  THEN <<TaskResult(PlatformOne, cp), TaskResult(PlatformTwo, other.cp)>>
  ELSE <<TaskResult(PlatformOne, other.cp), TaskResult(PlatformTwo, cp)>>

Gather ==
  /\ cfg.command = "collect_all" /\ ~feed.gathered
  /\ GatherReturns(cp, other.cp)
  /\ feed' = [items |-> feed.items, date |-> feed.date,
              target_platforms |-> feed.target_platforms, gathered |-> TRUE,
              results |-> Gathered]
  /\ UNCHANGED <<cfg, vp, collaborator, daily_verdicts, nextVid, vcall, vdone, vpassed, fin, fcall>>
  /\ UNCHANGED <<identVars, txVars, connVars, runVars, storeVars, batchVars, finStoreVars>>

NextRun ==
  \/ collect_platform
  \/ EnrichItem
  \/ LabelItem
  \/ Switch
  \/ Gather
  \/ collect_all
  \/ VerdictApiReturn

SpecRun == InitRun /\ [][NextRun]_vars

\* passes j-n+1..j of a batch all ended in an AI failure
FailedRunIn(trace, j, n) ==
  /\ j >= n
  /\ \A i \in (j - n + 1)..j : trace[i].failed

\* how many passes in a row, up to pass k, ended in an AI failure
RECURSIVE TrailingFailures(_, _)
TrailingFailures(trace, k) ==
  IF k = 0 THEN 0
  ELSE IF ~trace[k].failed THEN 0
  ELSE 1 + TrailingFailures(trace, k - 1)

\* the call went through the loop over its items: it has the loop's locals
HasLocals(call) == call.pc \in {"items", "returned"} /\ "ai_disabled" \in DOMAIN call

\* in one collect_platform call: a pass runs without AI only after threshold
\* failures in a row of this very call, the breaker is set exactly when there
\* was such a run, and until then the counter is the number of failures in a
\* row up to the last pass
BreakerOfCall(call, threshold) ==
  call.pc # "idle" =>
    /\ \A k \in 1..Len(call.trace) :
         call.trace[k].disabled =>
           \E j \in 1..(k - 1) : FailedRunIn(call.trace, j, threshold)
    /\ HasLocals(call) =>
         /\ call.ai_disabled <=>
              \E j \in 1..Len(call.trace) : FailedRunIn(call.trace, j, threshold)
         /\ ~call.ai_disabled =>
              call.ai_failures = TrailingFailures(call.trace, Len(call.trace))

\* C30: the failure counter counts failures in a row and belongs to one
\* platform's batch: an item the AI labels sets it back to zero, the breaker
\* trips only after T failures in a row of that batch and not before, and the
\* failures of one platform's batch never disable the AI in the batch of
\* another platform running at the same time or started later
C30_ConsecutiveAndLocal ==
  (cfg.command = "collect_all" /\ cfg.configured) =>
    /\ BreakerOfCall(cp, cfg.ai_max_failures_before_disable)
    /\ BreakerOfCall(other.cp, cfg.ai_max_failures_before_disable)

\* threshold 2: the other platform's batch has tripped after two failures in a
\* row, and in this batch a failure followed by an item the AI labelled leaves
\* the counter at zero and the AI enabled
C30_Witness ==
  /\ cfg.command = "collect_all" /\ cfg.configured
  /\ cfg.ai_max_failures_before_disable = 2
  /\ HasLocals(other.cp) /\ other.cp.ai_disabled
  /\ other.cp.trace[1].failed /\ other.cp.trace[2].failed
  /\ HasLocals(cp) /\ Len(cp.trace) = 2
  /\ cp.trace[1].failed /\ cp.trace[1].ai_calls > 0
  /\ cp.trace[2].labelled = "ai" /\ cp.trace[2].ai_calls > 0
  /\ cp.ai_failures = 0 /\ ~cp.ai_disabled

\* the verdict part of collect_all has begun: scopes, requests or rows
VerdictWorkBegun ==
  feed.gathered \/ vp.pc # "idle" \/ vpassed.n > 0 \/ daily_verdicts # {}

\* the scopes before the current one that have items
ScopesDone == { j \in 1..(vp.idx - 1) : vp.scopes[j].items # <<>> }

\* C29: in collect_all the scopes are computed and the verdict requests made
\* only after the collection of every requested platform has returned or
\* raised, and the verdicts are generated one scope at a time: when a request
\* for a scope is out, the verdict of every earlier scope is stored already
\* and no later scope has a row or a request
C29_VerdictsAfterAllCollections ==
  cfg.command = "collect_all" =>
    /\ VerdictWorkBegun => (Finished(cp) /\ Finished(other.cp))
    /\ vp.pc = "calling" =>
         /\ { r.scope_key : r \in daily_verdicts } = { vp.scopes[j].key : j \in ScopesDone }
         /\ vp.saved = Cardinality(ScopesDone)
         /\ \A i \in 1..Len(vp.calls) :
              \A k \in 1..Len(vp.calls[i].content) :
                vp.calls[i].content[k].item \in Members(CurrentScope.items)

\* both platforms returned items, the scope of all items has its verdict
\* stored, and the request for the second scope, one platform's, is out
C29_Witness ==
  /\ cfg.command = "collect_all" /\ vp.pc = "calling" /\ vp.idx = 2
  /\ cp.pc = "returned" /\ other.cp.pc = "returned"
  /\ Len(cp.trace) > 0 /\ Len(other.cp.trace) > 0
  /\ Cardinality(daily_verdicts) = 1
  /\ \E r \in daily_verdicts : r.scope_key = <<"all">>
  /\ Len(vp.scopes) = 3

(***************************************************************************)
(* collect_financial_reports: one collection run after another             *)
(***************************************************************************)
MaxCollects == 2

\* config/companies.yaml: the region lists, X is on both
CompaniesFile ==
  [us |-> <<[ticker |-> TickerX, name |-> <<"c", "1">>],
            [ticker |-> TickerY, name |-> <<"c", "2">>]>>,
   gl |-> <<[ticker |-> TickerX, name |-> <<"c", "1">>]>>]

\* list(all_companies.keys())
RegionKeys == <<"us", "gl">>

\* the regions argument; <<>> stands for None
RegionChoices == { <<"us">>, <<"gl">>, <<"us", "gl">>, <<>> }

\* "if ticker in result: result[ticker]['regions'].append(region_key)
\*  else: result[ticker] = {...}"
AddCompany(result, region_key, entry) ==
  IF \E i \in 1..Len(result) : result[i].ticker = entry.ticker
  THEN [i \in 1..Len(result) |->
          IF result[i].ticker = entry.ticker
          THEN [result[i] EXCEPT !.regions = Append(@, region_key)]
          ELSE result[i]]
  ELSE Append(result, [ticker |-> entry.ticker, name |-> entry.name,
                       regions |-> <<region_key>>])

\* "for ticker, name in region_data.items()"
RECURSIVE AddRegion(_, _, _)
AddRegion(result, region_key, entries) ==
  IF entries = <<>> THEN result
  ELSE AddRegion(AddCompany(result, region_key, Head(entries)), region_key, Tail(entries))

\* "for region_key in target_regions"
RECURSIVE LoadRegions(_, _)
LoadRegions(result, target_regions) ==
  IF target_regions = <<>> THEN result
  ELSE LoadRegions(AddRegion(result, Head(target_regions),
                             CompaniesFile[Head(target_regions)]),
                   Tail(target_regions))

\* load_companies(regions): the companies in insertion order, each with the
\* region keys of the target lists that name it
load_companies(regions) ==
  LoadRegions(<<>>, IF regions = <<>> THEN RegionKeys ELSE regions)

\* get_collected_tickers().get(ticker): the stored report_period, None when
\* the ticker has no row
CollectedPeriod(table, ticker) ==
  IF HasTicker(table, ticker) THEN RowOfTicker(table, ticker).report_period ELSE None

\* what _fetch_company_data gives for a ticker
FetchOutcomes ==
  { [kind |-> "raised"], [kind |-> "None"],
    [kind |-> "data", revenue |-> None, report_period |-> None],
    [kind |-> "data", revenue |-> <<"1.0">>, report_period |-> None],
    [kind |-> "data", revenue |-> <<"1.0">>, report_period |-> <<"2025", "-Q4">>] }

\* the locals of the loop before its first pass
CollectStart == [reports |-> <<>>, status |-> <<>>, ai_failures |-> 0, ai_disabled |-> FALSE]

\* the pass ends with progress_callback(idx, total, ticker, status)
Progress(run, ticker, status) ==
  [run EXCEPT !.status = Append(@, [ticker |-> ticker, status |-> status])]

\* FinancialReport(..., error=...) of a ticker whose fetch gave nothing usable
ErrorReport(company, message) ==
  [FinancialReport(company.ticker, company.name, company.regions, None)
     EXCEPT !.error = message]

\* FinancialReport(...) built from the fetched data
BuiltReport(company, data) ==
  [FinancialReport(company.ticker, company.name, company.regions, data.revenue)
     EXCEPT !.report_period = data.report_period]

\* "if ai_failures >= ai_max_failures: ai_disabled = True"
Thresholded(run, threshold) ==
  [run EXCEPT !.ai_disabled = @ \/ run.ai_failures >= threshold]

\* the AI analysis of a built report and the append that follows it
Analysed(run, report, enabled, threshold, outcome) ==
  IF ~enabled \/ run.ai_disabled
  THEN [run EXCEPT !.reports = Append(@, report)]
  ELSE IF outcome.kind = "tuple"
       THEN Thresholded([run EXCEPT !.reports = Append(@, Evaluation(report, outcome)),
                                    !.ai_failures = 0], threshold)
       ELSE Thresholded([run EXCEPT !.reports = Append(@, report),
                                    !.ai_failures = @ + 1], threshold)

\* one pass of "for idx, (ticker, info) in enumerate(companies.items(), 1)"
CollectPass(run, company, collected, fetched, outcome, enabled, threshold) ==
  IF ~IsNone(collected) THEN Progress(run, company.ticker, "skipped")
  ELSE IF fetched.kind \in {"raised", "None"}
  THEN Progress([run EXCEPT !.reports = Append(@, ErrorReport(company, <<"Failed">>))],
                company.ticker, "error")
  ELSE IF ~_has_meaningful_data(fetched)
  THEN Progress([run EXCEPT !.reports = Append(@, ErrorReport(company, <<"No data">>))],
                company.ticker, "no_data")
  ELSE Progress(Analysed(run, BuiltReport(company, fetched), enabled, threshold, outcome),
                company.ticker, "done")

\* the whole loop; collected_tickers was read once, before it
RECURSIVE CollectLoop(_, _, _, _, _, _, _)
CollectLoop(run, companies, idx, table, fetched, outcomes, config) ==
  IF idx > Len(companies) THEN run
  ELSE CollectLoop(CollectPass(run, companies[idx],
                               CollectedPeriod(table, companies[idx].ticker),
                               fetched[idx], outcomes[idx], config.configured,
                               config.ai_max_failures_before_disable),
                   companies, idx + 1, table, fetched, outcomes, config)

\* "valid_reports = [r for r in reports if r.error is None]"
ValidReports(reports) == SelectSeq(reports, LAMBDA r : IsNone(r.error))

\* "if valid_reports: save_financial_reports(valid_reports)": the tables the
\* run may leave
CollectSaved(table, reports) ==
  IF ValidReports(reports) = <<>> THEN {table}
  ELSE SaveAll({table}, ValidReports(reports))

\* a collection run, as the log keeps it
CollectionRun(regions, run, before, after) ==
  [op |-> "collect_financial_reports", regions |-> regions, status |-> run.status,
   reports |-> run.reports, before |-> before, after |-> after]

InitFinCollect ==
  /\ IdleIdentity
  /\ IdleStore
  /\ IdleBatch
  /\ IdleConn
  /\ IdleRun
  /\ IdleTx
  /\ IdleFinStore
  /\ cfg \in [command : {"collect_financial_reports"}, configured : BOOLEAN,
              ai_max_failures_before_disable : 1..MaxFailures]
  /\ feed = [items |-> <<>>]
  /\ vp = [pc |-> "idle"]
  /\ collaborator = {}
  /\ daily_verdicts = {}
  /\ nextVid = 1
  /\ vcall = [outcome |-> "nothing"]
  /\ vdone = [any |-> FALSE]
  /\ vpassed = [n |-> 0, ran |-> NoPasses]
  /\ fin = [pc |-> "idle"]
  /\ fcall = [outcome |-> "nothing"]

\* collect_financial_reports(regions, config): load the companies, read the
\* collected tickers, run the loop, save the valid reports
collect_financial_reports ==
  /\ cfg.command = "collect_financial_reports"
  /\ Len(flog) < MaxCollects
  /\ \E regions \in RegionChoices :
       \E fetched \in [1..Len(load_companies(regions)) -> FetchOutcomes] :
         \E outcomes \in [1..Len(load_companies(regions)) -> EvalOutcomes] :
           \E run \in {CollectLoop(CollectStart, load_companies(regions), 1,
                                   financial_reports, fetched, outcomes, cfg)} :
             \E after \in CollectSaved(financial_reports, run.reports) :
               /\ financial_reports' = after
               /\ flog' = Append(flog, CollectionRun(regions, run, financial_reports, after))
  /\ UNCHANGED <<ev, identVars, txVars, runVars, connVars, storeVars, aiVars, batchVars>>

NextFinCollect == collect_financial_reports

SpecFinCollect == InitFinCollect /\ [][NextFinCollect]_vars

\* the region lists of companies.yaml that name the ticker
ListsOf(ticker) ==
  { r \in Members(RegionKeys) :
      \E i \in 1..Len(CompaniesFile[r]) : CompaniesFile[r][i].ticker = ticker }

\* the status run i of the log reported for the ticker
StatusOf(i, ticker) ==
  { flog[i].status[k].status :
      k \in { n \in 1..Len(flog[i].status) : flog[i].status[n].ticker = ticker } }

\* the regions the table holds for the ticker
StoredRegions(table, ticker) ==
  IF HasTicker(table, ticker) THEN Members(RowOfTicker(table, ticker).regions) ELSE {}

\* run i collected list A and run i + 1 list B, both name the ticker, the
\* first run fetched and stored it and no fetch of it failed in the second
CollectedForThen(i, A, B, ticker) ==
  /\ A # B /\ {A, B} \subseteq ListsOf(ticker)
  /\ flog[i].regions = <<A>> /\ flog[i + 1].regions = <<B>>
  /\ StatusOf(i, ticker) = {"done"}
  /\ StatusOf(i + 1, ticker) \cap {"error", "no_data"} = {}

\* C26: when a ticker is on region lists A and B, a collection run for A and
\* then one for B, with no fetch of the ticker failing, leave the ticker's
\* stored report with both A and B among its regions
C26_RegionsAccumulateAcrossRuns ==
  \A i \in 1..(Len(flog) - 1) : \A ticker \in {TickerX, TickerY} :
    \A A, B \in Members(RegionKeys) :
      CollectedForThen(i, A, B, ticker)
        => {A, B} \subseteq StoredRegions(flog[i + 1].after, ticker)

\* the second run did fetch the ticker: its regions then hold both lists
RefetchedAccumulates ==
  \A i \in 1..(Len(flog) - 1) : \A ticker \in {TickerX, TickerY} :
    \A A, B \in Members(RegionKeys) :
      CollectedForThen(i, A, B, ticker) /\ StatusOf(i + 1, ticker) = {"done"}
        => {A, B} \subseteq StoredRegions(flog[i + 1].after, ticker)

\* a run skips exactly the tickers stored with a report period, and a
\* skipped ticker's row is left as it was
SkippedKeepsRow ==
  \A i \in 1..Len(flog) : \A ticker \in {TickerX, TickerY} :
    "skipped" \in StatusOf(i, ticker)
      => /\ ~IsNone(CollectedPeriod(flog[i].before, ticker))
         /\ RowOfTicker(flog[i].after, ticker) = RowOfTicker(flog[i].before, ticker)

(***************************************************************************)
(* Pooled connections and the transaction their session is left in         *)
(***************************************************************************)
\* psycopg's pgconn.transaction_status of a session that is not autocommit
TransactionStatus == {"IDLE", "INTRANS", "INERROR"}

\* the storage operations: one that writes and commits, one that only reads
StorageOperations == {"save_item", "load_daily_verdicts"}

\* cur.execute of the operation's own statement: it returns or the server
\* refuses it
StatementOutcomes == {"ok", "error"}

InitConn ==
  /\ IdleIdentity
  /\ IdleStore
  /\ IdleAI
  /\ IdleBatch
  /\ IdleFinStore
  /\ IdleRun
  /\ connPool = [_pool |-> <<>>, _size |-> 0]
  /\ held = [t \in Threads |-> NoConn]
  /\ connections = {}
  /\ nextConn = 0
  /\ txstatus = [c \in 1..MaxConnects |-> "IDLE"]
  /\ last = [kind |-> "none"]

\* _ensure_schema(conn) on a session found in this status: in a failed
\* transaction its first execute raises InFailedSqlTransaction, otherwise the
\* statements run and conn.commit() ends the transaction, an earlier
\* operation's open one included
_ensure_schema(found) ==
  IF found = "INERROR" THEN [raised |-> TRUE, status |-> "INERROR"]
  ELSE [raised |-> FALSE, status |-> "IDLE"]

\* the body of an operation between getting the connection and handing it
\* back: save_item commits after its INSERT, load_daily_verdicts ends after
\* its SELECT; nothing rolls back when a statement raises
OperationEnd(kind, found, statement) ==
  IF _ensure_schema(found).raised
  THEN [status |-> "INERROR", outcome |-> "InFailedSqlTransaction"]
  ELSE IF statement = "error" THEN [status |-> "INERROR", outcome |-> "raised"]
  ELSE [status |-> IF kind = "save_item" THEN "IDLE" ELSE "INTRANS",
        outcome |-> "returned"]

\* the operation as it is remembered: the status it found on its connection,
\* how it ended and the status it left
Operated(kind, found, end) ==
  [kind |-> kind, found |-> found, outcome |-> end.outcome, left |-> end.status]

\* a storage operation of thread t up to its finally or __exit__: it gets a
\* connection and runs its statements on it
StorageOperation(t) ==
  /\ getconn(t)
  /\ \E kind \in StorageOperations, statement \in StatementOutcomes :
       \E end \in {OperationEnd(kind, txstatus[held'[t][1]], statement)} :
         /\ txstatus' = [txstatus EXCEPT ![held'[t][1]] = end.status]
         /\ last' = Operated(kind, txstatus[held'[t][1]], end)

\* "finally: _CONNECTION_POOL.putconn(conn)" and _Connection.__exit__: the
\* connection goes back as the operation left it
__exit__(t) == putconn(t) /\ UNCHANGED txVars

NextConn ==
  \/ \E t \in Threads : StorageOperation(t)
  \/ \E t \in Threads : __exit__(t)

SpecConn == InitConn /\ [][NextConn]_vars

\* C36: every connection in the pool is in no open and no failed transaction,
\* and no operation fails because of what an earlier operation left on the
\* connection it was given
C36_PooledConnectionsAreClean ==
  /\ \A i \in 1..Len(connPool._pool) : txstatus[connPool._pool[i]] = "IDLE"
  /\ last.kind # "none" => last.outcome # "InFailedSqlTransaction"

\* an operation that finds a failed transaction is the one thing that goes
\* wrong: on a session found idle or in an open transaction the operation
\* ends as its own statement decides
CleanOrOpenFoundIsHarmless ==
  (last.kind # "none" /\ last.found # "INERROR")
    => last.outcome \in {"returned", "raised"}

\* save_item that returned leaves the session idle
CommittedSaveLeavesIdle ==
  (last.kind = "save_item" /\ last.outcome = "returned") => last.left = "IDLE"

(***************************************************************************)
(* save_result, the batch path, beside save_item, the per-item path        *)
(***************************************************************************)
MaxResultItems == 2

MaxResultSaves == 2

RegionOne == <<"r", "1">>

\* TrendingItem.model_dump() with the item's own region
RegionItem(url, source, title, region) == Item(url, source, title) @@ [region |-> region]

\* two spellings of one url, and two titled items whose sources differ in case
ResultItems ==
  { RegionItem(UrlBase \o <<"x", "/", "a">>, <<"a">>, <<"t">>, None),
    RegionItem(UrlBase \o <<"X", "/", "a", "#", "b">>, <<"a">>, <<"u">>, RegionOne),
    RegionItem(None, <<"a">>, <<"t">>, RegionOne),
    RegionItem(None, <<"A">>, <<"t">>, None) }

\* the CollectionResults of one platform: the region is the one collect was
\* asked for, the items carry the region their collector gave them
SaveResults ==
  { [CollectionResult(<<"p", "1">>, items, None) EXCEPT !.region = region] :
      region \in {None, RegionOne},
      items \in UNION { [1..n -> ResultItems] : n \in 0..MaxResultItems } }

InitSaveResult ==
  /\ IdleIdentity
  /\ IdleAI
  /\ IdleBatch
  /\ IdleFinStore
  /\ IdleConn
  /\ IdleRun
  /\ IdleTx
  /\ rows = {}
  /\ nextId = 1
  /\ pool \in { {[result |-> result, date |-> "d1"]} : result \in SaveResults }
  /\ sv = <<>>
  /\ hist = <<>>

\* "for d in new_dicts: identity = _item_identity(d); if identity in
\*  seen_identities: continue; ..."
RECURSIVE UniqueNew(_, _)
UniqueNew(seen_identities, new_dicts) ==
  IF new_dicts = <<>> THEN <<>>
  ELSE IF _item_identity(Head(new_dicts)) \in seen_identities
       THEN UniqueNew(seen_identities, Tail(new_dicts))
       ELSE <<Head(new_dicts)>>
            \o UniqueNew(seen_identities \cup {_item_identity(Head(new_dicts))},
                         Tail(new_dicts))

\* the tuple save_result appends to values for one dict: platform and region
\* are the dict's own
ResultValues(d, date) == NewRow(d, d.platform, d.region, date)

\* cur.executemany(query, values): the query names its placeholders
\* (%(platform)s, ...) and every element of values is a tuple.  psycopg takes
\* named placeholders from a mapping only and raises TypeError for a sequence,
\* before anything is sent to the server.
executemany(values) ==
  IF values = <<>> THEN [kind |-> "int", v |-> 0]
  ELSE [kind |-> "raised", exc |-> "TypeError"]

\* what save_result gives its caller
ResultReturned(result, date) ==
  IF result.items = <<>> \/ UniqueNew({}, result.items) = <<>>
  THEN [kind |-> "int", v |-> 0]
  ELSE executemany([i \in 1..Len(UniqueNew({}, result.items)) |->
                      ResultValues(UniqueNew({}, result.items)[i], date)])

\* a call as the history keeps it
ResultCall(op, req, before, after, returned) ==
  [op |-> op, result |-> req.result, date |-> req.date, before |-> before,
   after |-> after, returned |-> returned]

\* save_result(result, date=date): nothing reaches the table, the exception
\* leaves through the finally that hands the connection back
save_result ==
  /\ pool # {} /\ sv = <<>>
  /\ Len(hist) < MaxResultSaves
  /\ \E req \in pool :
       hist' = Append(hist, ResultCall("save_result", req, rows, rows,
                                       ResultReturned(req.result, req.date)))
  /\ UNCHANGED <<rows, nextId, pool, sv>>
  /\ UNCHANGED <<identVars, txVars, runVars, connVars, aiVars, batchVars, finStoreVars>>

\* the table and the sequence after save_item(d, platform, region) for each
\* dict in turn, with what each call returned
RECURSIVE SaveEach(_, _, _, _, _)
SaveEach(state, items, platform, region, date) ==
  IF items = <<>> THEN state
  ELSE SaveEach(
         IF \E r \in state.rows :
              UniqueKey(r) = UniqueKey(NewRow(Head(items), platform, region, date))
         THEN [state EXCEPT !.nextId = @ + 1, !.inserted = Append(@, FALSE)]
         ELSE [rows |-> state.rows
                        \cup {[id |-> state.nextId, txn |-> 0]
                              @@ NewRow(Head(items), platform, region, date)},
               nextId |-> state.nextId + 1,
               inserted |-> Append(state.inserted, TRUE)],
         Tail(items), platform, region, date)

\* collect_platform's "save_item(item.model_dump(), platform=result.platform,
\* region=result.region)" for every item of the result, in order
save_items ==
  /\ pool # {} /\ sv = <<>>
  /\ Len(hist) < MaxResultSaves
  /\ \E req \in pool :
       \E end \in {SaveEach([rows |-> rows, nextId |-> nextId, inserted |-> <<>>],
                            req.result.items, req.result.platform, req.result.region,
                            req.date)} :
         /\ rows' = end.rows
         /\ nextId' = end.nextId
         /\ hist' = Append(hist, ResultCall("save_item", req, rows, end.rows,
                                            [kind |-> "each", inserted |-> end.inserted]))
  /\ UNCHANGED <<pool, sv>>
  /\ UNCHANGED <<identVars, txVars, runVars, connVars, aiVars, batchVars, finStoreVars>>

NextSaveResult == save_result \/ save_items

SpecSaveResult == InitSaveResult /\ [][NextSaveResult]_vars

\* a stored row without its id and its writer
Columns(r) == [date |-> r.date, platform |-> r.platform, region |-> r.region,
               item |-> r.item, identity_type |-> r.identity_type,
               identity_value |-> r.identity_value, normalized_url |-> r.normalized_url]

\* the calls of the per-item path, and those of the batch path
ItemCalls == { k \in 1..Len(hist) : hist[k].op = "save_item" }

BatchCalls == { k \in 1..Len(hist) : hist[k].op = "save_result" }

\* C37: the row the per-item path stores for an item is the row the batch
\* path sends for it; in particular its platform and region are the item's own
C37_BothPathsStoreSameRow ==
  \A k \in ItemCalls : \A r \in hist[k].after \ hist[k].before :
    /\ Columns(r) = Columns(ResultValues(r.item, hist[k].date))
    /\ r.platform = r.item.platform
    /\ r.region = r.item.region

\* the per-item path does store the platform of the item, and the region of
\* the item whenever the result's region is the item's
ItemPathStoresResultRegion ==
  \A k \in ItemCalls : \A r \in hist[k].after \ hist[k].before :
    /\ r.platform = r.item.platform
    /\ r.region = hist[k].result.region
    /\ r.item.region = hist[k].result.region
         => Columns(r) = Columns(ResultValues(r.item, hist[k].date))

\* C39: two items of one batch with equal _item_identity have equal
\* (platform, identity_type, identity_value), and save_result returns the
\* number of rows it inserted, 0 when every item is a duplicate
C39_BatchDedupMatchesStoredKey ==
  \A k \in BatchCalls :
    /\ \A i, j \in 1..Len(hist[k].result.items) :
         _item_identity(hist[k].result.items[i]) = _item_identity(hist[k].result.items[j])
           => UniqueKey(ResultValues(hist[k].result.items[i], hist[k].date))
                = UniqueKey(ResultValues(hist[k].result.items[j], hist[k].date))
    /\ hist[k].returned.kind = "int"
    /\ hist[k].returned.v = Cardinality(hist[k].after \ hist[k].before)

\* the first half of C39 alone, for the items of one platform
InBatchDuplicatesShareKey ==
  \A k \in BatchCalls :
    \A i, j \in 1..Len(hist[k].result.items) :
      _item_identity(hist[k].result.items[i]) = _item_identity(hist[k].result.items[j])
        => UniqueKey(ResultValues(hist[k].result.items[i], hist[k].date))
             = UniqueKey(ResultValues(hist[k].result.items[j], hist[k].date))

\* save_result returns only for a result without items
BatchReturnsOnlyWhenEmpty ==
  \A k \in BatchCalls :
    (hist[k].returned.kind = "int") <=> (hist[k].result.items = <<>>)

(***************************************************************************)
(* The two scope builders on the same items                                *)
(***************************************************************************)
MaxScopeResults == 2

MaxScopeItems == 2

MaxBuilds == 2

\* a platform name that holds the text _scope_key puts before a region
PlatformWithSeparator == <<"a", "|region:", "b">>

\* items by platform and region: a pair, the pair with blanks around it, the
\* platform alone, the region alone, and the platform named like the pair
BuilderItems ==
  { ScopeItem("t", <<"a">>, <<"b">>),
    ScopeItem("u", <<" ", "a">>, <<"b", " ">>),
    ScopeItem("v", <<"a">>, None),
    ScopeItem("w", <<>>, <<"b">>),
    ScopeItem("x", PlatformWithSeparator, None) }

BuilderResults ==
  { CollectionResult(<<"a">>, items, error) :
      items \in UNION { [1..n -> BuilderItems] : n \in 0..MaxScopeItems },
      error \in {None, <<"e">>} }

InitScopes ==
  /\ IdleIdentity
  /\ IdleAI
  /\ IdleBatch
  /\ IdleFinStore
  /\ IdleConn
  /\ IdleRun
  /\ IdleTx
  /\ rows = {}
  /\ nextId = 1
  /\ pool \in { {[results |-> results]} :
                  results \in UNION { [1..n -> BuilderResults] : n \in 1..MaxScopeResults } }
  /\ sv = <<>>
  /\ hist = <<>>

Built(op, results, items, scopes) ==
  [op |-> op, results |-> results, items |-> items, scopes |-> scopes]

\* _generate_and_save_daily_verdicts: scopes = _build_daily_analysis_scopes(results)
BuildDailyScopes ==
  /\ pool # {} /\ sv = <<>>
  /\ Len(hist) < MaxBuilds
  /\ \E req \in pool :
       hist' = Append(hist, Built("_build_daily_analysis_scopes", req.results,
                                  SuccessfulItems(req.results),
                                  _build_daily_analysis_scopes(req.results)))
  /\ UNCHANGED <<rows, nextId, pool, sv>>
  /\ UNCHANGED <<identVars, txVars, runVars, connVars, aiVars, batchVars, finStoreVars>>

\* generate_verdicts_from_items: scopes = _build_scopes_from_items(items), the
\* items being the dicts of every result, one result after the other
BuildScopesFromItems ==
  /\ pool # {} /\ sv = <<>>
  /\ Len(hist) < MaxBuilds
  /\ \E req \in pool :
       hist' = Append(hist, Built("_build_scopes_from_items", req.results,
                                  EveryItem(req.results),
                                  _build_scopes_from_items(EveryItem(req.results))))
  /\ UNCHANGED <<rows, nextId, pool, sv>>
  /\ UNCHANGED <<identVars, txVars, runVars, connVars, aiVars, batchVars, finStoreVars>>

NextScopes == BuildDailyScopes \/ BuildScopesFromItems

SpecScopes == InitScopes /\ [][NextScopes]_vars

AllSuccessful(results) == \A i \in 1..Len(results) : IsNone(results[i].error)

\* the (platform, region) pairs a builder makes a scope for
ScopePairs(items) ==
  {<<None, None>>}
  \cup { <<ItemPlatform(items[i]), None>> :
           i \in { k \in 1..Len(items) : ItemPlatform(items[k]) # <<>> } }
  \cup { <<None, ItemRegion(items[i])>> :
           i \in { k \in 1..Len(items) : ItemRegion(items[k]) # <<>> } }
  \cup { <<ItemPlatform(items[i]), ItemRegion(items[i])>> :
           i \in { k \in 1..Len(items) : /\ ItemPlatform(items[k]) # <<>>
                                         /\ ItemRegion(items[k]) # <<>> } }

\* a name that holds the separator of _scope_key
HasSeparator(name) == ~IsNone(name) /\ \E i \in 1..Len(name) : name[i] = "|region:"

\* the builders give the same scopes, in the same order, for successful results
BuildersAgree ==
  \A j, k \in 1..Len(hist) :
    /\ hist[j].op = "_build_daily_analysis_scopes"
    /\ hist[k].op = "_build_scopes_from_items"
    /\ AllSuccessful(hist[j].results)
    => hist[j].scopes = hist[k].scopes

\* C38: the two builders return the same scopes (keys, platform and region,
\* items, order) for successful results, and two different (platform, region)
\* pairs never have the same scope key
C38_ScopeBuildersAgree ==
  /\ BuildersAgree
  /\ \A k \in 1..Len(hist) : \A a, b \in ScopePairs(hist[k].items) :
       a # b => _scope_key(a[1], a[2]) # _scope_key(b[1], b[2])

\* pairs whose names do not hold the separator have different keys
KeysDifferWithoutSeparator ==
  \A k \in 1..Len(hist) : \A a, b \in ScopePairs(hist[k].items) :
    /\ a # b
    /\ ~HasSeparator(a[1]) /\ ~HasSeparator(a[2])
    /\ ~HasSeparator(b[1]) /\ ~HasSeparator(b[2])
    => _scope_key(a[1], a[2]) # _scope_key(b[1], b[2])

\* for results of which some failed, the daily builder gives the scopes of
\* the items of those that succeeded
DailyScopesOfSuccessful ==
  \A k \in 1..Len(hist) :
    hist[k].op = "_build_daily_analysis_scopes"
      => hist[k].scopes = _build_scopes_from_items(hist[k].items)

\* both builders ran on successful results with two platforms
BothBuildersRan ==
  \E j, k \in 1..Len(hist) :
    /\ hist[j].op = "_build_daily_analysis_scopes"
    /\ hist[k].op = "_build_scopes_from_items"
    /\ AllSuccessful(hist[j].results)
    /\ Len(hist[j].scopes) > 3

\* a scope was overwritten by another with the same key
ScopeOverwritten ==
  \E k \in 1..Len(hist) : Len(hist[k].scopes) < Cardinality(ScopePairs(hist[k].items))

====
